---- MODULE Spec2Model ----
(***************************************************************************)
(* Model of the GBID codecs of pygenebe:                                   *)
(*   genebe/gbid.py          PositionEncoder, VariantIdEncoder             *)
(*   genebe/transcriptid.py  GbIdentifierType, GbIdentifier,               *)
(*                           GbIdentifierService                           *)
(*                                                                         *)
(* Python integers are unbounded and several values of the codecs exceed   *)
(* 32 bits (genome offsets, packed identifiers), so every Python int that  *)
(* takes part in packing is a two's-complement bit vector of BitWidth bits *)
(* (index 1 is bit 0).  Python strings are sequences of one-character      *)
(* strings.                                                                *)
(***************************************************************************)
EXTENDS Integers, Sequences, FiniteSets, TLC

\* ------------------------------------------------------------------ bounds

\* Width of the window on Python's unbounded integers.
BitWidth == 66
\* Longest insertion string drawn exhaustively for encodeSpdi.
MaxInsLen == 2
\* Longest ref / alt allele drawn exhaustively for encode1based.
MaxAlleleLen == 2
\* Longest accession body (the part after the prefix) drawn exhaustively.
MaxBodyLen == 2
\* Number of callers running calls at once.
NumCallers == 2

\* ---------------------------------------------------------- Python integers

Bit == {0, 1}

\* A bit vector written out bit by bit (no pending computation is left in it).
Vec(f) == SubSeq(f, 1, BitWidth)

\* The one element of a one-element set: an operator written as TheOne of a
\* set built over its operands takes the operands by value.
TheOne(S) == CHOOSE v \in S : TRUE

\* The Python int n (|n| < 2^31) as a bit vector.
Big(n) == Vec([i \in 1..BitWidth |-> IF i <= 31 THEN (n \div (2 ^ (i - 1))) % 2
                                               ELSE IF n < 0 THEN 1 ELSE 0])

BigZero == Vec([i \in 1..BitWidth |-> 0])

\* a & b, a | b, ~a
BitAnd(a, b) == Vec([i \in 1..BitWidth |-> a[i] * b[i]])
BitOr(a, b) == Vec([i \in 1..BitWidth |-> IF a[i] + b[i] > 0 THEN 1 ELSE 0])
BitNot(a) == Vec([i \in 1..BitWidth |-> 1 - a[i]])

\* a << k, a >> k (arithmetic, as Python's)
Shl(a, k) == Vec([i \in 1..BitWidth |-> IF i > k THEN a[i - k] ELSE 0])
Shr(a, k) == Vec([i \in 1..BitWidth |-> IF i + k <= BitWidth THEN a[i + k] ELSE a[BitWidth]])

\* Bit i of a, sign-extended past the window.
BitAt(a, i) == IF i <= BitWidth THEN a[i] ELSE a[BitWidth]

\* The k-th byte of a (k = 0 is the low byte), as a number 0..255.
Byte(a, k) == BitAt(a, 8 * k + 1) + 2 * BitAt(a, 8 * k + 2) + 4 * BitAt(a, 8 * k + 3)
              + 8 * BitAt(a, 8 * k + 4) + 16 * BitAt(a, 8 * k + 5) + 32 * BitAt(a, 8 * k + 6)
              + 64 * BitAt(a, 8 * k + 7) + 128 * BitAt(a, 8 * k + 8)
\* The k-th 24-bit word of a (k = 0 is the low word); four words span the window.
WordBase == 2 ^ 24
Word(a, k) == Byte(a, 3 * k) + 256 * Byte(a, 3 * k + 1) + 65536 * Byte(a, 3 * k + 2)
\* The bit vector whose words are w[1] (low) .. w[4], cut to the window.
FromWords(w) == Vec([i \in 1..BitWidth |->
                       (w[((i - 1) \div 24) + 1] \div (2 ^ ((i - 1) % 24))) % 2])

\* Word-wise addition with carry, wrapping at the window as two's complement does.
AddWords(a, b) ==
    LET s0 == Word(a, 0) + Word(b, 0)
        s1 == Word(a, 1) + Word(b, 1) + (s0 \div WordBase)
        s2 == Word(a, 2) + Word(b, 2) + (s1 \div WordBase)
        s3 == Word(a, 3) + Word(b, 3) + (s2 \div WordBase)
    IN  FromWords(<<s0 % WordBase, s1 % WordBase, s2 % WordBase, s3 % WordBase>>)

\* a + b, -a, a - b
Add(a, b) == AddWords(a, b)
Neg(a) == Add(BitNot(a), Big(1))
Sub(a, b) == Add(a, Neg(b))

IsNeg(a) == a[BitWidth] = 1
\* a >= b, a > 0
BigGE(a, b) == ~IsNeg(Sub(a, b))
BigPos(a) == ~IsNeg(a) /\ a # BigZero

\* int.bit_length() of a non-negative int
BitLength(a) == IF a = BigZero THEN 0
                ELSE CHOOSE i \in 1..BitWidth :
                        a[i] = 1 /\ \A j \in (i + 1)..BitWidth : a[j] = 0

\* A small non-negative Python int back as a number (list index, len).
IsSmall(a) == \A i \in 31..BitWidth : a[i] = 0
ToSmall(a) == Byte(a, 0) + 256 * Byte(a, 1) + 65536 * Byte(a, 2) + 16777216 * (Byte(a, 3) % 64)

\* The binary literal with exactly the bits lo..hi set (bit 0 is the last digit).
BitsLiteral(lo, hi) == Vec([i \in 1..BitWidth |-> IF lo < i /\ i <= hi + 1 THEN 1 ELSE 0])

\* ------------------------------------------------------------ Python strings

\* str.upper() on the characters the model draws.
UpperChar(c) ==
    CASE c = "a" -> "A" [] c = "c" -> "C" [] c = "g" -> "G" [] c = "t" -> "T"
      [] c = "n" -> "N" [] c = "x" -> "X" [] c = "y" -> "Y" [] c = "m" -> "M"
      [] c = "h" -> "H" [] c = "r" -> "R"
      [] OTHER -> c
Upper(s) == [i \in 1..Len(s) |-> UpperChar(s[i])]

\* s[k:]
DropFirst(s, k) == IF k >= Len(s) THEN <<>> ELSE SubSeq(s, k + 1, Len(s))

\* Mutant: only the first two characters are compared.
StartsWith_two_letters(s, p) ==
    Len(s) >= Len(p) /\ \A i \in 1..Len(p) : i <= 2 => s[i] = p[i]
\* s.startswith(p)
StartsWith(s, p) == Len(s) >= Len(p) /\ SubSeq(s, 1, Len(p)) = p

\* c in s
Contains(s, c) == \E i \in 1..Len(s) : s[i] = c

\* str(n) for a small int n
DigitChar(d) == CASE d = 0 -> "0" [] d = 1 -> "1" [] d = 2 -> "2" [] d = 3 -> "3"
                  [] d = 4 -> "4" [] d = 5 -> "5" [] d = 6 -> "6" [] d = 7 -> "7"
                  [] d = 8 -> "8" [] d = 9 -> "9"
RECURSIVE NatStr(_)
NatStr(n) == IF n < 10 THEN <<DigitChar(n)>> ELSE Append(NatStr(n \div 10), DigitChar(n % 10))
IntStr(n) == IF n < 0 THEN <<"-">> \o NatStr(0 - n) ELSE NatStr(n)

\* ------------------------------------------------------- outcome of a call

\* A call returns an int (value), returns a str (text), or raises (kind, msg).
Returned(v) == [kind |-> "ok", value |-> v, text |-> <<>>, msg |-> ""]
ReturnedStr(t) == [kind |-> "ok", value |-> BigZero, text |-> t, msg |-> ""]
Raised(exc, m) == [kind |-> exc, value |-> BigZero, text |-> <<>>, msg |-> m]

\* ---------------------------------------------------------- PositionEncoder

CHR_NOT_SUPPORTED == Big(-1)
\* Mutant: an out-of-range position is reported as an unsupported chromosome.
ERROR_WRONG_CHR_POSITION_as_unsupported == Big(-1)
ERROR_WRONG_CHR_POSITION == Big(-2)

\* self.chromosomes
Chromosomes ==
    << <<"1">>, <<"2">>, <<"3">>, <<"4">>, <<"5">>,
       <<"6">>, <<"7">>, <<"8">>, <<"9">>, <<"1", "0">>,
       <<"1", "1">>, <<"1", "2">>, <<"1", "3">>, <<"1", "4">>, <<"1", "5">>,
       <<"1", "6">>, <<"1", "7">>, <<"1", "8">>, <<"1", "9">>, <<"2", "0">>,
       <<"2", "1">>, <<"2", "2">>, <<"X">>, <<"Y">>, <<"M">> >>

\* self.chromosome_sizes
ChromosomeSizes ==
    (<<"1">> :> 248956422) @@
    (<<"2">> :> 242193529) @@
    (<<"3">> :> 198295559) @@
    (<<"4">> :> 190214555) @@
    (<<"5">> :> 181538259) @@
    (<<"6">> :> 170805979) @@
    (<<"7">> :> 159345973) @@
    (<<"8">> :> 145138636) @@
    (<<"9">> :> 138394717) @@
    (<<"1", "0">> :> 133797422) @@
    (<<"1", "1">> :> 135086622) @@
    (<<"1", "2">> :> 133275309) @@
    (<<"1", "3">> :> 114364328) @@
    (<<"1", "4">> :> 107043718) @@
    (<<"1", "5">> :> 101991189) @@
    (<<"1", "6">> :> 90338345) @@
    (<<"1", "7">> :> 83257441) @@
    (<<"1", "8">> :> 80373285) @@
    (<<"1", "9">> :> 58617616) @@
    (<<"2", "0">> :> 64444167) @@
    (<<"2", "1">> :> 46709983) @@
    (<<"2", "2">> :> 50818468) @@
    (<<"X">> :> 156040895) @@
    (<<"Y">> :> 57227415) @@
    (<<"M">> :> 16569)

\* dict.get(chr_name, 0)
SizeOf(chr_name) == IF chr_name \in DOMAIN ChromosomeSizes THEN ChromosomeSizes[chr_name] ELSE 0

\* self.sizes
Sizes == [i \in 1..Len(Chromosomes) |-> SizeOf(Chromosomes[i])]

\* Mutant: inclusive prefix sums, each offset counting its own chromosome.
RECURSIVE OffsetsFrom_inclusive(_, _)
OffsetsFrom_inclusive(szs, acc) ==
    IF Len(acc) = Len(szs) THEN acc
    ELSE OffsetsFrom_inclusive(szs, Append(acc, IF acc = <<>> THEN Big(szs[1])
                                                ELSE Add(acc[Len(acc)], Big(szs[Len(acc) + 1]))))

\* sum(self.sizes[:i]); the table is built front to back
RECURSIVE OffsetsFrom(_, _)
OffsetsFrom(szs, acc) ==
    IF Len(acc) = Len(szs) THEN acc
    ELSE OffsetsFrom(szs, Append(acc, IF acc = <<>> THEN BigZero
                                      ELSE Add(acc[Len(acc)], Big(szs[Len(acc)]))))
\* Mutant: every chromosome starts at coordinate 0.
Offsets_all_zero == [i \in 1..Len(Sizes) |-> BigZero]
Offsets == OffsetsFrom(Sizes, <<>>)

\* PositionEncoder._chr
Chr(chromosome) == chromosome

\* list.index: the first index holding x, 0 when there is none (ValueError)
IndexOf(list, x) == IF \E i \in 1..Len(list) : list[i] = x
                    THEN CHOOSE i \in 1..Len(list) : list[i] = x /\ \A j \in 1..(i - 1) : list[j] # x
                    ELSE 0

\* Mutant: the chromosome's offset is left out of the coordinate.
encode_1_based_without_throw_no_offset(pe, chromosome, position) ==
    LET chr_index == IndexOf(pe.chromosomes, Chr(chromosome))
    IN  IF chr_index = 0 THEN CHR_NOT_SUPPORTED
        ELSE IF position > pe.sizes[chr_index] \/ position < 0 THEN ERROR_WRONG_CHR_POSITION
        ELSE Big(position - 1)

\* PositionEncoder.encode_1_based_without_throw, on the tables pe
encode_1_based_without_throw(pe, chromosome, position) ==
    LET chr_name == Chr(chromosome)
        chr_index == IndexOf(pe.chromosomes, chr_name)
    IN  IF chr_index = 0 THEN CHR_NOT_SUPPORTED
        ELSE IF position > pe.sizes[chr_index] \/ position < 0 THEN ERROR_WRONG_CHR_POSITION
        ELSE Add(Big(position - 1), pe.offsets[chr_index])

\* PositionEncoder.encode
position_encode(pe, chromosome, position) ==
    encode_1_based_without_throw(pe, chromosome, position)

\* PositionEncoder.__init__
NewPositionEncoder == [chromosomes |-> Chromosomes, sizes |-> Sizes, offsets |-> Offsets]

\* ---------------------------------------------------------- VariantIdEncoder

MAX_DEL_LENGTH == (2 ^ 7) - 1
\* Mutant: the insertion limit is one too large.
MAX_INS_LENGTH_ten == 9 + 1
MAX_INS_LENGTH == 9

MASK_HASH == BitsLiteral(63, 63)
MASK_NULL == BitsLiteral(62, 62)
\* Mutant: the POSITION field is one bit wide.
MASK_POS_one_bit == BitsLiteral(30, 30)
MASK_POS == BitsLiteral(30, 61)
MASK_C_HASH == BitsLiteral(29, 29)
MASK_INS_LEN == BitsLiteral(25, 28)
MASK_DEL == BitsLiteral(18, 24)
MASK_INS == BitsLiteral(0, 17)
\* Mutant: the change-hash field is one bit wider and lies over the flag.
MASK_CHANGE_HASH_VALUE_over_flag == BitsLiteral(0, 29)
MASK_CHANGE_HASH_VALUE == BitsLiteral(0, 28)

\* BASE_ENCODING.get(c): the code, or -1 for None
BASE_ENCODING(c) == CASE c = "A" -> 0 [] c = "C" -> 1 [] c = "G" -> 2 [] c = "T" -> 3
                      [] OTHER -> -1
\* Mutant: N is not among the valid bases.
VALID_BASES_without_N == {"A", "C", "G", "T"}
VALID_BASES == {"A", "C", "G", "N", "T"}

\* Mutant: POSITION is shifted four bits further up, as a 36-bit field would end.
SHIFT_POS_four_up == 30 + 4
SHIFT_POS == 30
\* Mutant: the INS_LEN field starts one bit low, on the top bit of DEL.
SHIFT_INS_LEN_on_del == 25 - 1
SHIFT_INS_LEN == 25
SHIFT_DEL == 18
SHIFT_C_HASH == 29

HASH_SEED == 104729

\* The UTF-8 byte of a character the model draws.
Ord(c) == CASE c = "0" -> 48 [] c = "1" -> 49 [] c = "2" -> 50 [] c = "3" -> 51
            [] c = "4" -> 52 [] c = "5" -> 53 [] c = "6" -> 54 [] c = "7" -> 55
            [] c = "8" -> 56 [] c = "9" -> 57 [] c = ":" -> 58 [] c = "-" -> 45
            [] c = "A" -> 65 [] c = "C" -> 67 [] c = "G" -> 71 [] c = "N" -> 78
            [] c = "T" -> 84 [] c = "X" -> 88 [] c = "a" -> 97 [] c = "x" -> 120
            [] OTHER -> 63

\* ---- mmh3.hash128: MurmurHash3_x64_128 of the library the code imports
\* (mmh3, or pymmh3 when mmh3 is absent; both compute the same function).
\* All values are unsigned 64-bit words held in the window.

M64 == BitsLiteral(0, 63)
Xor(a, b) == TheOne({Vec([i \in 1..BitWidth |-> (x[i] + y[i]) % 2]) : x \in {a}, y \in {b}})
Add64(a, b) == TheOne({BitAnd(Add(x, y), M64) : x \in {a}, y \in {b}})
Rotl64(a, r) == TheOne({BitOr(BitAnd(Shl(x, r), M64), Shr(x, 64 - r)) : x \in {a}})

\* The k-th 11-bit limb of a (k = 0 is the low limb); six limbs span 64 bits.
LimbBase == 2 ^ 11
Limb(a, k) == BitAt(a, 11 * k + 1) + 2 * BitAt(a, 11 * k + 2) + 4 * BitAt(a, 11 * k + 3)
              + 8 * BitAt(a, 11 * k + 4) + 16 * BitAt(a, 11 * k + 5) + 32 * BitAt(a, 11 * k + 6)
              + 64 * BitAt(a, 11 * k + 7) + 128 * BitAt(a, 11 * k + 8)
              + 256 * BitAt(a, 11 * k + 9) + 512 * BitAt(a, 11 * k + 10)
              + 1024 * BitAt(a, 11 * k + 11)
Limbs(a) == <<Limb(a, 0), Limb(a, 1), Limb(a, 2), Limb(a, 3), Limb(a, 4), Limb(a, 5)>>

\* The six low columns of the schoolbook product of two limb sequences.
LimbColumns(x, y) ==
    << x[1] * y[1],
       x[1] * y[2] + x[2] * y[1],
       x[1] * y[3] + x[2] * y[2] + x[3] * y[1],
       x[1] * y[4] + x[2] * y[3] + x[3] * y[2] + x[4] * y[1],
       x[1] * y[5] + x[2] * y[4] + x[3] * y[3] + x[4] * y[2] + x[5] * y[1],
       x[1] * y[6] + x[2] * y[5] + x[3] * y[4] + x[4] * y[3] + x[5] * y[2] + x[6] * y[1] >>

\* The columns from the k-th on with the carry brought in, each cut to a limb.
RECURSIVE CarryLimbs(_, _, _)
CarryLimbs(columns, k, carry) ==
    IF k > Len(columns) THEN <<>>
    ELSE <<(columns[k] + carry) % LimbBase>>
         \o CarryLimbs(columns, k + 1, (columns[k] + carry) \div LimbBase)

\* The unsigned 64-bit word whose limbs are d[1] (low) .. d[6].
FromLimbs(d) ==
    Vec([i \in 1..BitWidth |->
           IF i <= 64 THEN (d[((i - 1) \div 11) + 1] \div (2 ^ ((i - 1) % 11))) % 2 ELSE 0])

\* (a * b) mod 2^64 of two unsigned 64-bit words, limb by limb
Mul64(a, b) ==
    TheOne({FromLimbs(CarryLimbs(LimbColumns(Limbs(x), Limbs(y)), 1, 0)) : x \in {a}, y \in {b}})

\* The constants of MurmurHash3_x64_128, in 24-bit words from the low one.
MURMUR_C1 == FromWords(<<\H4253D5, \H7B9111, \H87C3, 0>>)
MURMUR_C2 == FromWords(<<\H45937F, \HAD4327, \H4CF5, 0>>)
FMIX_1 == FromWords(<<\H558CCD, \HAFD7ED, \HFF51, 0>>)
FMIX_2 == FromWords(<<\H85EC53, \HB9FE1A, \HC4CE, 0>>)
BODY_ADD_1 == Big(\H52DCE729)
BODY_ADD_2 == Big(\H38495AB5)

\* fmix64: k ^= k >> 33, twice followed by a multiplication, once not
XorShr33(k) == Xor(k, Shr(k, 33))
Fmix64(k) == XorShr33(Mul64(XorShr33(Mul64(XorShr33(k), FMIX_1)), FMIX_2))

\* Up to eight bytes as a little-endian unsigned word.
LittleEndian(bytes) ==
    Vec([i \in 1..BitWidth |->
           IF i <= 64 /\ i <= 8 * Len(bytes)
           THEN (bytes[((i - 1) \div 8) + 1] \div (2 ^ ((i - 1) % 8))) % 2
           ELSE 0])

MixK1(k1) == Mul64(Rotl64(Mul64(k1, MURMUR_C1), 31), MURMUR_C2)
MixK2(k2) == Mul64(Rotl64(Mul64(k2, MURMUR_C2), 33), MURMUR_C1)

\* One round of the body: the new h1 from <<h1, h2>> and k1, then the new h2
\* from the old h2, k2 and the new h1.
RoundH1(h, k1) ==
    Add64(Mul64(Add64(Rotl64(Xor(h[1], MixK1(k1)), 27), h[2]), Big(5)), BODY_ADD_1)
RoundH2(h2, k2, h1) ==
    <<h1, Add64(Mul64(Add64(Rotl64(Xor(h2, MixK2(k2)), 31), h1), Big(5)), BODY_ADD_2)>>
MurmurRound(h, k1, k2) == RoundH2(h[2], k2, RoundH1(h, k1))

\* The body: one round per 16-byte block, from block number `block` on.
RECURSIVE MurmurBody(_, _, _)
MurmurBody(key, block, h) ==
    IF 16 * (block + 1) > Len(key) \/ Len(h[1]) = 0 THEN h
    ELSE MurmurBody(key, block + 1,
                    MurmurRound(h, LittleEndian(SubSeq(key, 16 * block + 1, 16 * block + 8)),
                                LittleEndian(SubSeq(key, 16 * block + 9, 16 * block + 16))))

\* The tail: the bytes after the last whole block, mixed into h2 (bytes 9 on)
\* and h1 (bytes 1..8).
MurmurTail(h, tail) ==
    << IF Len(tail) > 0
       THEN Xor(h[1], MixK1(LittleEndian(SubSeq(tail, 1, IF Len(tail) > 8 THEN 8 ELSE Len(tail)))))
       ELSE h[1],
       IF Len(tail) > 8 THEN Xor(h[2], MixK2(LittleEndian(DropFirst(tail, 8)))) ELSE h[2] >>

\* The finalization: h1 ^= len; h2 ^= len; h1 += h2; h2 += h1; both through
\* fmix64; h1 += h2. The low 64 bits of the 128-bit hash are h1.
FinalSum(f1, f2) == Add64(f1, f2)
FinalMix(v1, u2) == TheOne({FinalSum(Fmix64(x), Fmix64(Add64(u2, x))) : x \in {v1}})
FinalAdd(u1, u2) == TheOne({FinalMix(Add64(u1, y), y) : y \in {u2}})
MurmurFinal(h, n) == FinalAdd(Xor(h[1], n), Xor(h[2], n))

\* The low 64 bits of MurmurHash3_x64_128(key, seed).
MurmurLow64(key, seed) ==
    TheOne({MurmurFinal(tail, Big(Len(key))) :
              tail \in {MurmurTail(body, DropFirst(key, 16 * (Len(key) \div 16))) :
                          body \in {MurmurBody(key, 0, <<Big(seed), Big(seed)>>)}}})

\* VariantIdEncoder.hash_function: mmh3.hash128(input_string, seed) & 0xFFFFFFFFFFFFFFFF
hash_function(input_string, seed) ==
    TheOne({BitAnd(h, M64) :
              h \in {MurmurLow64(key, seed) :
                       key \in {SubSeq([i \in 1..Len(s) |-> Ord(s[i])], 1, Len(s)) :
                                  s \in {input_string}}}})

\* VariantIdEncoder.set_value
set_value(input, mask, value) ==
    LET shift_count == BitLength(BitAnd(mask, Neg(mask))) - 1
    IN  TheOne({BitOr(BitAnd(x, BitNot(mask)), BitAnd(Shl(v, shift_count), mask)) :
                  x \in {input}, v \in {value}})

\* Mutant: the bases are laid one bit apart instead of two.
RECURSIVE encode_bases_from_one_bit_step(_, _, _)
encode_bases_from_one_bit_step(alt, i, encoded) ==
    IF i > Len(alt) \/ Len(encoded) = 0 THEN Returned(encoded)
    ELSE IF BASE_ENCODING(alt[i]) = -1
         THEN Raised("InvalidPositionException", "Cannot encode alt as it contains strange letters")
         ELSE encode_bases_from_one_bit_step(alt, i + 1,
                                BitOr(encoded, Shl(Big(BASE_ENCODING(alt[i])), i - 1)))

\* VariantIdEncoder.encode_bases_fast: the loop from base i on, encoded so far
RECURSIVE encode_bases_from(_, _, _)
encode_bases_from(alt, i, encoded) ==
    IF i > Len(alt) \/ Len(encoded) = 0 THEN Returned(encoded)
    ELSE IF BASE_ENCODING(alt[i]) = -1
         THEN Raised("InvalidPositionException", "Cannot encode alt as it contains strange letters")
         ELSE encode_bases_from(alt, i + 1,
                                BitOr(encoded, Shl(Big(BASE_ENCODING(alt[i])), (i - 1) * 2)))
encode_bases_fast(alt) == encode_bases_from(alt, 1, BigZero)

\* Mutant: the change string is written alt first.
change_hash_alt_first(del_length, alt) ==
    BitAnd(hash_function(alt \o <<":">> \o IntStr(del_length), HASH_SEED), MASK_CHANGE_HASH_VALUE)
\* VariantIdEncoder.change_hash
change_hash(del_length, alt) ==
    LET change == IntStr(del_length) \o <<":">> \o alt
    IN  TheOne({BitAnd(hash_value, MASK_CHANGE_HASH_VALUE) :
                  hash_value \in {hash_function(change, HASH_SEED)}})

\* Mutant: the stripped name is not upper-cased.
NormalizeChromosome_strip_only(chromosome) ==
    IF StartsWith(chromosome, <<"c", "h", "r">>) \/ StartsWith(chromosome, <<"C", "H", "R">>)
       \/ StartsWith(chromosome, <<"C", "h", "r">>)
    THEN DropFirst(chromosome, 3)
    ELSE Upper(chromosome)

\* chromosome normalization at the head of encodeSpdi
NormalizeChromosome(chromosome) ==
    IF StartsWith(chromosome, <<"c", "h", "r">>) \/ StartsWith(chromosome, <<"C", "H", "R">>)
       \/ StartsWith(chromosome, <<"C", "h", "r">>)
    THEN Upper(DropFirst(chromosome, 3))
    ELSE Upper(chromosome)

\* VariantIdEncoder.encodeSpdi, on the position encoder tables pe
encodeSpdi(pe, chromosome, position, del_length, ins) ==
    LET chromosomeNormalized == NormalizeChromosome(chromosome)
        positionId == encode_1_based_without_throw(pe, chromosomeNormalized, position)
        ins_len == Len(ins)
        useChangeHash == ins_len > MAX_INS_LENGTH \/ del_length > MAX_DEL_LENGTH
        hasN == Contains(ins, "N")
    IN  IF positionId = Big(-1)
        THEN Raised("InvalidPositionException", "Wrong position")
        ELSE IF ~(\A i \in 1..Len(ins) : ins[i] \in VALID_BASES)
        THEN Raised("InvalidPositionException", "Alt should contain only ACGNT")
        ELSE IF useChangeHash \/ hasN
        THEN LET e1 == set_value(BigZero, MASK_C_HASH, Big(1))
                 e2 == set_value(e1, MASK_POS, positionId)
                 changeHash == change_hash(del_length, ins)
             IN  Returned(set_value(e2, MASK_CHANGE_HASH_VALUE, changeHash))
        ELSE LET encodedAlt == encode_bases_fast(ins)
             IN  IF encodedAlt.kind # "ok" THEN encodedAlt
                 ELSE Returned(BitOr(BitOr(BitOr(Shl(positionId, SHIFT_POS),
                                                 Shl(Big(ins_len), SHIFT_INS_LEN)),
                                           Shl(Big(del_length), SHIFT_DEL)),
                                     encodedAlt.value))

\* Mutant: the stripping loop forgets to advance the position.
RECURSIVE encode1based_strip_keep_position(_, _, _, _, _)
encode1based_strip_keep_position(pe, chromosome, position, ref, altNorm) ==
    IF ref # <<>> /\ altNorm # <<>> /\ ref[1] = altNorm[1]
    THEN encode1based_strip_keep_position(pe, chromosome, position, DropFirst(ref, 1),
                                          DropFirst(altNorm, 1))
    ELSE encodeSpdi(pe, chromosome, position, Len(ref), altNorm)

\* VariantIdEncoder.encode1based: the stripping loop, then the call of encodeSpdi
RECURSIVE encode1based_strip(_, _, _, _, _)
encode1based_strip(pe, chromosome, position, ref, altNorm) ==
    IF ref # <<>> /\ altNorm # <<>> /\ ref[1] = altNorm[1]
    THEN encode1based_strip(pe, chromosome, position + 1, DropFirst(ref, 1), DropFirst(altNorm, 1))
    ELSE encodeSpdi(pe, chromosome, position, Len(ref), altNorm)
\* Mutant: the alleles go to encodeSpdi as they came, nothing stripped.
encode1based_unstripped(pe, chromosome, position, ref, alt) ==
    encodeSpdi(pe, chromosome, position - 1, Len(ref), Upper(alt))
encode1based(pe, chromosome, position, ref, alt) ==
    encode1based_strip(pe, chromosome, position - 1, ref, Upper(alt))

\* VariantIdEncoder.encode1based called with an int as ref: the loop condition
\* `ref and altNorm and ref[0] == altNorm[0]` subscripts the int when it is not 0
\* and altNorm is not empty; otherwise the loop is skipped and refLength = ref
encode1based_int_ref(pe, chromosome, position, ref, alt) ==
    IF ref # 0 /\ Upper(alt) # <<>>
    THEN Raised("TypeError", "'int' object is not subscriptable")
    ELSE encodeSpdi(pe, chromosome, position - 1, ref, Upper(alt))

\* ------------------------------------------------------ int(str) and str(int)

DecDigits == {"0", "1", "2", "3", "4", "5", "6", "7", "8", "9"}
DigitVal(c) == Ord(c) - 48

\* str.strip() for the one whitespace character the model draws
RECURSIVE LStrip(_)
LStrip(s) == IF s # <<>> /\ Head(s) = " " THEN LStrip(Tail(s)) ELSE s
RECURSIVE RStrip(_)
RStrip(s) == IF s # <<>> /\ s[Len(s)] = " " THEN RStrip(SubSeq(s, 1, Len(s) - 1)) ELSE s

\* The digit groups int() accepts: digits, single underscores between digits.
IsDecimalBody(s) ==
    /\ s # <<>>
    /\ \A i \in 1..Len(s) : s[i] \in DecDigits \/ s[i] = "_"
    /\ s[1] # "_" /\ s[Len(s)] # "_"
    /\ \A i \in 1..(Len(s) - 1) : ~(s[i] = "_" /\ s[i + 1] = "_")

RECURSIVE DecimalValue(_, _)
DecimalValue(s, acc) ==
    IF s = <<>> \/ Len(acc) = 0 THEN acc
    ELSE IF Head(s) = "_" THEN DecimalValue(Tail(s), acc)
    ELSE DecimalValue(Tail(s), Add(Add(Shl(acc, 3), Shl(acc, 1)), Big(DigitVal(Head(s)))))

\* int(s), base 10
PyInt(s) ==
    LET t == RStrip(LStrip(s))
        signed == t # <<>> /\ t[1] \in {"+", "-"}
        body == IF signed THEN Tail(t) ELSE t
    IN  IF ~IsDecimalBody(body) THEN Raised("ValueError", "invalid literal for int()")
        ELSE IF signed /\ t[1] = "-" THEN Returned(Neg(DecimalValue(body, BigZero)))
        ELSE Returned(DecimalValue(body, BigZero))

\* divmod(a, 10) of a non-negative int, word by word from the top
DivMod10(a) ==
    LET c3 == Word(a, 3)
        c2 == (c3 % 10) * WordBase + Word(a, 2)
        c1 == (c2 % 10) * WordBase + Word(a, 1)
        c0 == (c1 % 10) * WordBase + Word(a, 0)
    IN  [q |-> FromWords(<<c0 \div 10, c1 \div 10, c2 \div 10, c3 \div 10>>), r |-> c0 % 10]

\* str(a) of a non-negative int
RECURSIVE BigStr(_)
BigStr(a) == LET d == DivMod10(a)
             IN  IF d.q = BigZero THEN <<DigitChar(d.r)>>
                 ELSE Append(BigStr(d.q), DigitChar(d.r))

\* Mutant: no padding at all.
ZFill_none(s, width) == s

\* s.zfill(width) of an unsigned digit string
RECURSIVE ZFill(_, _)
ZFill(s, width) == IF Len(s) >= width THEN s ELSE ZFill(<<"0">> \o s, width)

\* s.find(c): the first index (1-based here), 0 when absent
Find(s, c) == IF Contains(s, c)
              THEN CHOOSE i \in 1..Len(s) : s[i] = c /\ \A j \in 1..(i - 1) : s[j] # c
              ELSE 0

\* ---------------------------------------------------------- GbIdentifierType

\* list(GbIdentifierType): (prefix, padding_size, computed, refseq) in declared order
GbIdentifierType ==
    << [name |-> "ENST", prefix |-> <<"E", "N", "S", "T">>,
        padding_size |-> 11, computed |-> FALSE, refseq |-> FALSE],
       [name |-> "ENSP", prefix |-> <<"E", "N", "S", "P">>,
        padding_size |-> 11, computed |-> FALSE, refseq |-> FALSE],
       [name |-> "ENSG", prefix |-> <<"E", "N", "S", "G">>,
        padding_size |-> 11, computed |-> FALSE, refseq |-> FALSE],
       [name |-> "NM", prefix |-> <<"N", "M", "_">>,
        padding_size |-> 9, computed |-> FALSE, refseq |-> TRUE],
       [name |-> "NR", prefix |-> <<"N", "R", "_">>,
        padding_size |-> 9, computed |-> FALSE, refseq |-> TRUE],
       [name |-> "NP", prefix |-> <<"N", "P", "_">>,
        padding_size |-> 9, computed |-> FALSE, refseq |-> TRUE],
       [name |-> "XM", prefix |-> <<"X", "M", "_">>,
        padding_size |-> 9, computed |-> TRUE, refseq |-> TRUE],
       [name |-> "XP", prefix |-> <<"X", "P", "_">>,
        padding_size |-> 9, computed |-> TRUE, refseq |-> TRUE],
       [name |-> "YP", prefix |-> <<"Y", "P", "_">>,
        padding_size |-> 9, computed |-> TRUE, refseq |-> TRUE],
       [name |-> "XR", prefix |-> <<"X", "R", "_">>,
        padding_size |-> 9, computed |-> TRUE, refseq |-> TRUE],
       [name |-> "unassigned_transcript", prefix |-> <<"u", "n", "a", "s", "s", "i", "g", "n", "e", "d", "_", "t", "r", "a", "n", "s", "c", "r", "i", "p", "t", "_">>,
        padding_size |-> 0, computed |-> FALSE, refseq |-> TRUE],
       [name |-> "ENSR", prefix |-> <<"E", "N", "S", "R">>,
        padding_size |-> 11, computed |-> FALSE, refseq |-> FALSE] >>

unassigned_transcript == GbIdentifierType[11]

\* -------------------------------------------------------- GbIdentifierService

MASK_OMIT == BitsLiteral(63, 63)
MASK_TYPE == BitsLiteral(55, 62)
\* Mutant: the ID field is one bit short.
MASK_ID_36_bits == BitsLiteral(18, 53)
MASK_ID == BitsLiteral(18, 54)
MASK_VERSION == BitsLiteral(0, 17)

\* GbIdentifierService._set_value / _set_value_long
svc_set_value(input_val, mask, value) ==
    LET shift_count == BitLength(BitAnd(mask, Neg(mask))) - 1
    IN  BitOr(BitAnd(input_val, BitNot(mask)), BitAnd(Shl(value, shift_count), mask))

\* GbIdentifierService._read_value / _read_value_long
svc_read_value(input_val, mask) ==
    LET shift_count == BitLength(BitAnd(mask, Neg(mask))) - 1
    IN  Shr(BitAnd(input_val, mask), shift_count)

\* GbIdentifierService._encode
svc_encode_fields(transcript_id, version, type_id) ==
    LET e1 == svc_set_value(BigZero, MASK_TYPE, type_id)
        e2 == svc_set_value(e1, MASK_ID, transcript_id)
    IN  svc_set_value(e2, MASK_VERSION, version)

\* the prefix loop of encode: index of the first type whose prefix starts the
\* string, 0 when the loop ends without a match
\* (types is the enumeration the loop iterates over)
MatchingTypeOn(types, transcript) ==
    IF \E i \in 1..Len(types) : StartsWith(transcript, types[i].prefix)
    THEN CHOOSE i \in 1..Len(types) :
            /\ StartsWith(transcript, types[i].prefix)
            /\ \A j \in 1..(i - 1) : ~StartsWith(transcript, types[j].prefix)
    ELSE 0
MatchingType(transcript) == MatchingTypeOn(GbIdentifierType, transcript)

\* GbIdentifierService.encode
svc_encode_on(types, transcript) ==
    LET real_type == MatchingTypeOn(types, transcript)
        start_idx == Len(types[real_type].prefix)
        dot_idx == Find(transcript, ".")
        id_part == IF dot_idx # 0 THEN PyInt(SubSeq(transcript, start_idx + 1, dot_idx - 1))
                   ELSE PyInt(DropFirst(transcript, start_idx))
        version_part == IF dot_idx # 0 THEN PyInt(DropFirst(transcript, dot_idx))
                        ELSE Returned(BigZero)
    IN  IF real_type = 0 THEN Raised("InvalidGbIdentifierException", "Wrong type")
        ELSE IF id_part.kind # "ok" THEN id_part
        ELSE IF version_part.kind # "ok" THEN version_part
        ELSE Returned(svc_encode_fields(id_part.value, version_part.value, Big(real_type - 1)))
svc_encode(transcript) == svc_encode_on(GbIdentifierType, transcript)

\* GbIdentifierService.identifier / version
svc_identifier(id_val) == svc_read_value(id_val, MASK_ID)
svc_version(id_val) == svc_read_value(id_val, MASK_VERSION)

\* GbIdentifierService.type: the 0-based index read from the TYPE field
svc_type_id(id_val) == ToSmall(svc_read_value(id_val, MASK_TYPE))

\* GbIdentifierService.without_version
svc_without_version(id_val) == BitAnd(id_val, BitNot(MASK_VERSION))

\* A Python bool as an outcome (True is the int 1, False the int 0).
ReturnedBool(b) == Returned(IF b THEN Big(1) ELSE BigZero)

\* GbIdentifierService.equal_without_version, on two packed integers
svc_equal_without_version(left, right) ==
    ReturnedBool(svc_without_version(left) = svc_without_version(right))

\* GbIdentifier.__eq__ of GbIdentifier(a) and GbIdentifier(b)
gbid_eq(a, b) == ReturnedBool(a = b)

\* Mutant: the comparison forgets the type.
gbid_equals_ignore_version_id_only(a, b) ==
    ReturnedBool(svc_identifier(a) = svc_identifier(b))
\* GbIdentifier.equals_ignore_version of GbIdentifier(a) and GbIdentifier(b):
\* `and` asks for the types only when the identifiers agree, and get_type()
\* indexes the list of the 12 types
gbid_equals_ignore_version(a, b) ==
    IF svc_identifier(a) # svc_identifier(b) THEN ReturnedBool(FALSE)
    ELSE IF svc_type_id(a) >= Len(GbIdentifierType) \/ svc_type_id(b) >= Len(GbIdentifierType)
         THEN Raised("IndexError", "list index out of range")
         ELSE ReturnedBool(GbIdentifierType[svc_type_id(a) + 1] = GbIdentifierType[svc_type_id(b) + 1])

\* `self.get_type == GbIdentifierType.unassigned_transcript` in __str__: the left
\* side is the bound method, not its result, and a method equals no Enum member
get_type_method_equals(type_val, member) == FALSE

\* GbIdentifier.__str__ of GbIdentifier(data)
gbid_str_on(types, data) ==
    LET type_id == svc_type_id(data)
        type_val == types[type_id + 1]
        identifier == svc_identifier(data)
        padding_size ==
            IF type_val.refseq
            THEN IF get_type_method_equals(type_val, unassigned_transcript) THEN 0
                 ELSE IF BigGE(identifier, Big(1000000)) THEN 9
                 ELSE 6
            ELSE type_val.padding_size
        version == svc_version(data)
        head == type_val.prefix \o ZFill(BigStr(identifier), padding_size)
    IN  IF type_id + 1 > Len(types) THEN Raised("IndexError", "list index out of range")
        ELSE IF BigPos(version) THEN ReturnedStr(head \o <<".">> \o BigStr(version))
        ELSE ReturnedStr(head)
gbid_str(data) == gbid_str_on(GbIdentifierType, data)

\* GbIdentifierService.to_string / decode_transcript_id of an int
svc_to_string(id_val) == gbid_str(id_val)

\* ------------------------------------------------------------------ inputs

\* All strings over an alphabet up to a length.
StringsUpTo(alphabet, n) == UNION {[1..k -> alphabet] : k \in 0..n}

ChrPrefixes == {<<"c", "h", "r">>, <<"C", "H", "R">>, <<"C", "h", "r">>}

\* The letter-case variants of a catalogue name.
CaseVariants(c) == {c} \cup (IF c = <<"X">> THEN {<<"x">>} ELSE {})
                       \cup (IF c = <<"Y">> THEN {<<"y">>} ELSE {})
                       \cup (IF c = <<"M">> THEN {<<"m">>} ELSE {})
CatalogueNames == {Chromosomes[i] : i \in 1..Len(Chromosomes)}
BareNames == UNION {CaseVariants(c) : c \in CatalogueNames}
PrefixedNames == {x \o c : x \in ChrPrefixes, c \in BareNames}

\* Names no normalization maps into the catalogue.
UnsupportedNames ==
    { <<"2", "5">>, <<>>, <<"c", "h", "r">>, <<"c", "H", "R", "1">>,
    <<"c", "h", "r", "2", "5">>, <<"c", "h", "r", "c", "h", "r", "1">>, <<"0">>, <<"M", "T">> }

SweepChromosomes == BareNames \cup PrefixedNames \cup UnsupportedNames

\* Positions around the ends of the chromosome a name normalizes to.
SweepPositions(chromosome) ==
    LET size == SizeOf(NormalizeChromosome(chromosome))
    IN  {-1, 0, 1, size, size + 1, 300000000}

SweepDels == {0, 127, 128}
InsAlphabet == {"A", "C", "G", "T", "N", "x"}
\* Insertions at the edge of the direct path: 9 and 10 bases.
LongInsertions ==
    { <<"A", "C", "G", "T", "A", "C", "G", "T", "A">>, <<"A", "C", "G", "T", "A", "C", "G", "T", "A", "C">>,
      <<"T", "T", "T", "T", "T", "T", "T", "T", "T">>, <<"A", "C", "A", "C", "A", "C", "A", "C", "A", "T">>,
      <<"A", "C", "G", "T", "A", "C", "G", "T", "x">> }
SweepInsertions == StringsUpTo(InsAlphabet, MaxInsLen) \cup LongInsertions

\* The (chromosome, position, del_length, ins) tuples encodeSpdi is called with:
\* every spelling of every chromosome at its first positions, every catalogue
\* chromosome around both of its ends on both paths, and every change at a
\* valid and at an out-of-range position.
SpdiInputs ==
    {<<c, p, 1, <<"A">>>> : c \in SweepChromosomes, p \in {0, 1}}
    \cup UNION {{<<c, p, d, <<"A">>>> : p \in SweepPositions(c), d \in {1, 128}} :
                c \in BareNames}
    \cup {<<cp[1], cp[2], d, ins>> :
            cp \in {<<<<"1">>, 1>>, <<<<"c", "h", "r", "2">>, -1>>, <<<<"C", "h", "r", "x">>, 1>>},
            d \in SweepDels, ins \in SweepInsertions}

AlleleAlphabet == {"A", "C", "a"}
\* Alleles beyond the exhaustive length: long insertions behind an anchor base, N.
LongAlleles ==
    { <<"C", "A", "C", "A", "C", "A", "C", "A", "C", "A", "T">>, <<"A", "T", "G">>, <<"N">>,
      <<"A", "N">>, <<"C", "A", "C", "G", "T", "A", "C", "G", "T", "A">>, <<"x">> }
Alleles == StringsUpTo(AlleleAlphabet, MaxAlleleLen) \cup LongAlleles

\* The (chromosome, position, ref, alt) tuples encode1based is called with.
VcfInputs ==
    {<<<<"c", "h", "r", "X">>, 16044378, ref, alt>> : ref \in Alleles, alt \in Alleles}
    \cup {<<<<"1">>, 16044378, <<"C">>, <<"C", "A", "C", "A", "C", "A", "C", "A", "C", "A", "T">>>>}
    \cup {<<c, p, ra[1], ra[2]>> :
            c \in {<<"1">>, <<"2">>, <<"2", "5">>}, p \in {0, 1, 2},
            ra \in {<<<<"A">>, <<"C">>>>, <<<<"C">>, <<"C", "A">>>>, <<<<"A", "C">>, <<"A">>>>}}

\* The (chromosome, position, ref, alt) tuples encode1based is called with when
\* ref is a length: no, short and long deletions, with and without inserted bases.
VcfLengthInputs ==
    {<<c, p, n, alt>> :
        c \in {<<"1">>, <<"c", "h", "r", "X">>}, p \in {1, 100}, n \in {0, 1, 2, 128},
        alt \in {<<>>, <<"A">>, <<"a">>, <<"A", "C">>,
                 <<"A", "C", "G", "T", "A", "C", "G", "T", "A", "C">>}}

\* Strings no declared prefix starts, beside the declared prefixes themselves.
TypePrefixes == {GbIdentifierType[i].prefix : i \in 1..Len(GbIdentifierType)}
OtherPrefixes ==
    { <<>>, <<"I", "N", "V", "A", "L", "I", "D">>, <<"E", "N", "S">>, <<"n", "m", "_">>, <<"N", "M">> }
FewPrefixes == {GbIdentifierType[1].prefix, GbIdentifierType[4].prefix,
                GbIdentifierType[11].prefix}

\* Numeric parts: padded and unpadded ids, the ends of the 37-bit ID field,
\* and strings int() takes or refuses.
SweepIds ==
    { <<"1">>, <<"0">>, <<"0", "0", "7">>, <<"1", "2", "3", "4", "5", "6">>,
    <<"0", "0", "0", "1", "2", "3", "4">>, <<"1", "0", "0", "0", "0", "0", "0">>, <<"0", "0", "1", "2", "3", "4", "5", "6", "7">>, <<"0", "0", "0", "0", "0", "4", "0", "4", "2", "7", "6">>,
    <<"0", "0", "0", "0", "0", "1", "2", "3", "4", "5", "6">>, <<"1", "2", "3", "4", "5", "6", "7", "8", "9", "0">>, <<"1", "3", "7", "4", "3", "8", "9", "5", "3", "4", "7", "1">>, <<"1", "3", "7", "4", "3", "8", "9", "5", "3", "4", "7", "2">>,
    <<"-", "5">>, <<"+", "5">>, <<" ", "1">>, <<"1", "_", "0">>,
    <<>>, <<"x">>, <<"1", "x">>,
    <<"0", "0", "0", "1", "2", "3", "4", "5", "6">>, <<"0", "0", "0", "0", "0", "0">> }
FewIds == { <<"5">>, <<"1", "2", "3", "4", "5", "6">>, <<"1", "2", "3", "4", "5", "6", "7">>, <<"0", "0", "0", "0", "0", "4", "0", "4", "2", "7", "6">> }
\* Version suffixes, the dot included; <<>> is "no version".
SweepVersions ==
    { <<>>, <<".", "6">>, <<".", "1">>, <<".", "0">>,
    <<".", "2", "6", "2", "1", "4", "3">>, <<".", "2", "6", "2", "1", "4", "4">>, <<".", "x">>, <<".", "2", ".", "3">>,
    <<".", "-", "1">>, <<".">>, <<".", "0", "1">> }
FewVersions == { <<>>, <<".", "6">>, <<".", "x">> }
BodyAlphabet == {"0", "1", ".", "-", "x"}

\* The largest id and the largest version the fields hold.
FullFields == <<"1", "3", "7", "4", "3", "8", "9", "5", "3", "4", "7", "1", ".", "2", "6", "2", "1", "4", "3">>

\* The strings GbIdentifierService.encode is called with.
TranscriptInputs ==
    {pre \o id \o ver : pre \in TypePrefixes \cup OtherPrefixes, id \in FewIds, ver \in FewVersions}
    \cup {pre \o id \o ver : pre \in FewPrefixes, id \in SweepIds, ver \in FewVersions}
    \cup {pre \o id \o ver : pre \in FewPrefixes, id \in FewIds, ver \in SweepVersions}
    \cup {pre \o b : pre \in FewPrefixes, b \in StringsUpTo(BodyAlphabet, MaxBodyLen)}
    \cup {pre \o FullFields : pre \in TypePrefixes}

\* Packed identifiers decode is called with, beside the ones encode returned:
\* every TYPE value up to the first one past the enumeration, ids on both sides
\* of the RefSeq padding switch, versions zero and non-zero.
DecodeTypeIds == 0..Len(GbIdentifierType)
DecodeIds == {Big(0), Big(5), Big(999999), Big(1000000), Sub(Shl(Big(1), 37), Big(1))}
DecodeVersions == {0, 6, 262143}
DecodeInputs ==
    {Add(Add(Shl(Big(t), 55), Shl(id, 18)), Big(v)) :
        t \in DecodeTypeIds, id \in DecodeIds, v \in DecodeVersions}

\* Insertions of the direct path beyond the exhaustive length: eight and nine bases.
DirectLongInsertions ==
    { <<"A", "A", "A", "A", "A", "A", "A", "A">>, <<"A", "A", "A", "A", "A", "A", "A", "A", "A">>, <<"A", "C", "G", "T", "A", "C", "G", "T", "A">>, <<"T", "T", "T", "T", "T", "T", "T", "T", "T">>, <<"C", "A", "A", "A", "A", "A", "A", "A", "A">> }
DirectInsertions == StringsUpTo({"A", "C", "G", "T"}, MaxInsLen) \cup DirectLongInsertions

\* The (chromosome, position, del_length, ins) tuples of two encodeSpdi calls in
\* a row: every direct-path insertion at a valid and at an out-of-range
\* position, and every position around the ends of two chromosomes for a
\* change of each path.
RepeatSpdiInputs ==
    {<<cp[1], cp[2], d, ins>> :
        cp \in {<<<<"1">>, 1>>, <<<<"2">>, -1>>}, d \in {0, 127}, ins \in DirectInsertions}
    \cup UNION {{<<c, p, ch[1], ch[2]>> :
                    p \in SweepPositions(c) \cup {2, SizeOf(c) - 1},
                    ch \in {<<1, <<"A">>>>, <<128, <<"A">>>>, <<0, <<"A", "C", "G", "T", "A", "C", "G", "T", "A", "C">>>>, <<1, <<"A", "N">>>>}} :
                c \in {<<"1">>, <<"X">>}}
    \cup {<<<<"2">>, p, 1, <<"A">>>> : p \in {0, 1}}
\* The (chromosome, position, ref, alt) tuples of two encode1based calls in a row.
RepeatVcfInputs ==
    { <<<<"1">>, 16044378, <<"C">>, <<"C", "A", "C", "A", "C", "A", "C", "A", "C", "A", "T">>>>,
      <<<<"c", "h", "r", "X">>, 5, <<"A">>, <<"C">>>>,
      <<<<"c", "h", "r", "X">>, 5, <<"A">>, <<"c">>>>,
      <<<<"1">>, 1, <<"A", "C">>, <<"A">>>>,
      <<<<"2", "5">>, 1, <<"A">>, <<"C">>>> }
\* Two argument tuples that differ in at most one place.
DifferInOne(a, b) == Cardinality({i \in 1..4 : a[i] # b[i]}) <= 1
\* Two argument tuples with one change on the two sides of the boundary
\* between chromosomes 1 and 2.
AcrossBoundary(a, b) ==
    /\ {a[1], b[1]} = {<<"1">>, <<"2">>}
    /\ {a[2], b[2]} \subseteq {0, 1, SizeOf(<<"1">>)}
    /\ a[3] = b[3] /\ a[4] = b[4]

\* The fields identifiers are packed from for the comparisons: three types, ids
\* and versions at both ends of their fields; and three integers no accession
\* packs to (TYPE 12, and the top bit set).
EqualityFields ==
    {[type_id |-> t, id |-> i, version |-> v, omit |-> 0] :
        t \in {0, 3, 11},
        i \in {BigZero, Big(1), BitsLiteral(0, 36)},
        v \in {BigZero, Big(1), BitsLiteral(0, 17)}}
    \cup {[type_id |-> 12, id |-> Big(1), version |-> BigZero, omit |-> 0],
          [type_id |-> 0, id |-> Big(1), version |-> BigZero, omit |-> 1],
          [type_id |-> 0, id |-> Big(1), version |-> Big(1), omit |-> 1]}
\* GbIdentifier(data).data for the integer with these fields
PackedOf(f) ==
    BitOr(svc_encode_fields(f.id, f.version, Big(f.type_id)),
          IF f.omit = 1 THEN MASK_OMIT ELSE BigZero)

\* The (chromosome, position) pairs PositionEncoder.encode is called with: every
\* catalogue chromosome and some names outside it, around both ends.
PositionNames == CatalogueNames \cup {<<"2", "5">>, <<"c", "h", "r", "1">>, <<"x">>, <<>>}
PositionInputs ==
    UNION {{<<c, p>> : p \in {-1, 0, 1, 2, SizeOf(c) - 1, SizeOf(c), SizeOf(c) + 1}} :
            c \in PositionNames}
\* A later call stays on the chromosome or goes to an end of another one.
LaterPositionInputs(chromosome) ==
    {in \in PositionInputs : in[1] = chromosome \/ in[2] \in {0, 1, SizeOf(in[1])}}

\* ----------------------------------------------------------- the state machine

VARIABLES
    positionEncoder,    \* VariantIdEncoder.positionEncoder: the tables built by __init__
    op,                 \* the function called
    args,               \* its arguments
    pc,                 \* "call" before the call runs, "done" once it has returned or raised
    result,             \* its outcome
    history,            \* the calls completed before this one: [op, args, result]
    identifierTypes,    \* the GbIdentifierType enumeration, built when the module is imported
    callers             \* the calls of concurrent callers: [op, args, at, view, result] each

vars == <<positionEncoder, op, args, pc, result, history, identifierTypes, callers>>

NoResult == Raised("none", "")

SpdiArgs == {[chromosome |-> in[1], position |-> in[2], del_length |-> in[3], ins |-> in[4]] :
                in \in SpdiInputs}
VcfArgs == {[chromosome |-> in[1], position |-> in[2], ref |-> in[3], alt |-> in[4]] :
                in \in VcfInputs}
TranscriptArgs == {[transcript |-> t] : t \in TranscriptInputs}
DecodeArgs == {[id_val |-> x] : x \in DecodeInputs}
SpdiRecord(in) == [chromosome |-> in[1], position |-> in[2], del_length |-> in[3], ins |-> in[4]]
VcfRecord(in) == [chromosome |-> in[1], position |-> in[2], ref |-> in[3], alt |-> in[4]]
VcfLengthArgs == {VcfRecord(in) : in \in VcfLengthInputs}
RepeatSpdiArgs == {SpdiRecord(in) : in \in RepeatSpdiInputs}
RepeatVcfArgs == {VcfRecord(in) : in \in RepeatVcfInputs}
LaterSpdiArgs(a) ==
    {SpdiRecord(in) : in \in {x \in RepeatSpdiInputs :
        \/ DifferInOne(x, <<a.chromosome, a.position, a.del_length, a.ins>>)
        \/ AcrossBoundary(x, <<a.chromosome, a.position, a.del_length, a.ins>>)}}
LaterVcfArgs(a) ==
    {VcfRecord(in) : in \in {x \in RepeatVcfInputs :
        DifferInOne(x, <<a.chromosome, a.position, a.ref, a.alt>>)}}
PositionArgs == {[chromosome |-> in[1], position |-> in[2]] : in \in PositionInputs}
LaterPositionArgs(chromosome) ==
    {[chromosome |-> in[1], position |-> in[2]] : in \in LaterPositionInputs(chromosome)}

\* The codecs are built at import; a caller is about to call the variant codec.
InitVariant ==
    /\ positionEncoder = NewPositionEncoder
    /\ \/ op = "encodeSpdi" /\ args \in SpdiArgs
       \/ op = "encode1based" /\ args \in VcfArgs
       \/ op = "encode1based_int_ref" /\ args \in VcfLengthArgs
    /\ pc = "call"
    /\ result = NoResult
    /\ history = {}
    /\ identifierTypes = GbIdentifierType /\ callers = <<>>

\* A caller is about to call the transcript codec.
InitTranscript ==
    /\ positionEncoder = NewPositionEncoder
    /\ \/ op = "encode" /\ args \in TranscriptArgs
       \/ op = "decode" /\ args \in DecodeArgs
    /\ pc = "call"
    /\ result = NoResult
    /\ history = {}
    /\ identifierTypes = GbIdentifierType /\ callers = <<>>

\* A caller is about to call the position encoder.
InitPosition ==
    /\ positionEncoder = NewPositionEncoder
    /\ op = "position_encode" /\ args \in PositionArgs
    /\ pc = "call"
    /\ result = NoResult
    /\ history = {}
    /\ identifierTypes = GbIdentifierType /\ callers = <<>>

\* A caller is about to call the variant codec, and will call it again.
InitRepeat ==
    /\ positionEncoder = NewPositionEncoder
    /\ \/ op = "encodeSpdi" /\ args \in RepeatSpdiArgs
       \/ op = "encode1based" /\ args \in RepeatVcfArgs
    /\ pc = "call"
    /\ result = NoResult
    /\ history = {}
    /\ identifierTypes = GbIdentifierType /\ callers = <<>>

\* A caller is about to compare two identifiers.
InitEquality ==
    /\ positionEncoder = NewPositionEncoder
    /\ op \in {"eq", "equals_ignore_version", "equal_without_version"}
    /\ args \in [left : EqualityFields, right : EqualityFields]
    /\ pc = "call"
    /\ result = NoResult
    /\ history = {}
    /\ identifierTypes = GbIdentifierType /\ callers = <<>>

\* The calls concurrent callers make: each entry point on its early returns and
\* on its full path.
ConcurrentCalls ==
    {[op |-> "position_encode", args |-> [chromosome |-> in[1], position |-> in[2]]] :
        in \in {<<<<"X">>, 300000000>>, <<<<"2">>, 0>>}}
    \cup {[op |-> "encodeSpdi", args |-> SpdiRecord(in)] :
        in \in {<<<<"c", "h", "r", "2">>, 5, 1, <<"A">>>>, <<<<"M", "T">>, 1, 128, <<"A">>>>}}
    \cup {[op |-> "encode1based", args |-> VcfRecord(in)] :
        in \in {<<<<"1">>, 1, <<"A", "C">>, <<"A", "N">>>>}}
    \cup {[op |-> "encode", args |-> [transcript |-> t]] :
        t \in {<<"N", "M", "_", "1", ".", "2">>}}
    \cup {[op |-> "decode", args |-> [id_val |-> x]] :
        x \in {Add(Add(Shl(Big(3), 55), Shl(Big(7), 18)), Big(2))}}
\* Nothing read yet.
NoView == [chromosomes |-> <<>>, sizes |-> <<>>, offsets |-> <<>>, types |-> <<>>]

\* The codecs are built at import; several callers are about to call them at once.
InitConcurrent ==
    /\ positionEncoder = NewPositionEncoder
    /\ identifierTypes = GbIdentifierType
    /\ callers \in [1..NumCallers ->
                      {[op |-> k.op, args |-> k.args, at |-> "call", view |-> NoView,
                        result |-> NoResult] : k \in ConcurrentCalls}]
    /\ op = "concurrent" /\ args = <<>> /\ pc = "concurrent"
    /\ result = NoResult
    /\ history = {}

Init == InitVariant \/ InitConcurrent \/ InitTranscript \/ InitPosition \/ InitRepeat \/ InitEquality

\* Mutant: the call shifts the offsets of the encoder it ran on.
CallEncodeSpdi_wearing_offsets ==
    /\ pc = "call" /\ op = "encodeSpdi"
    /\ result' = encodeSpdi(positionEncoder, args.chromosome, args.position,
                            args.del_length, args.ins)
    /\ pc' = "done"
    /\ positionEncoder' = [positionEncoder EXCEPT
                              !.offsets = [i \in 1..Len(@) |-> Add(@[i], Big(1))]]
    /\ UNCHANGED <<op, args, history>>
    /\ UNCHANGED <<identifierTypes, callers>>

\* encode_spdi_variant_gbid / VariantIdEncoder.encodeSpdi
CallEncodeSpdi ==
    /\ pc = "call" /\ op = "encodeSpdi"
    /\ result' = encodeSpdi(positionEncoder, args.chromosome, args.position,
                            args.del_length, args.ins)
    /\ pc' = "done"
    /\ UNCHANGED <<positionEncoder, op, args, history>>
    /\ UNCHANGED <<identifierTypes, callers>>

\* Mutant: alt reaches the stripping loop in the letter case it came in.
CallEncode1based_alt_as_given ==
    /\ pc = "call" /\ op = "encode1based"
    /\ result' = encode1based_strip(positionEncoder, args.chromosome, args.position - 1,
                                    args.ref, args.alt)
    /\ pc' = "done"
    /\ UNCHANGED <<positionEncoder, op, args, history>>
    /\ UNCHANGED <<identifierTypes, callers>>
\* encode_vcf_variant_gbid / VariantIdEncoder.encode1based
CallEncode1based ==
    /\ pc = "call" /\ op = "encode1based"
    /\ result' = encode1based(positionEncoder, args.chromosome, args.position,
                              args.ref, args.alt)
    /\ pc' = "done"
    /\ UNCHANGED <<positionEncoder, op, args, history>>
    /\ UNCHANGED <<identifierTypes, callers>>

\* VariantIdEncoder.encode1based with the length of ref in place of ref
CallEncode1basedIntRef ==
    /\ pc = "call" /\ op = "encode1based_int_ref"
    /\ result' = encode1based_int_ref(positionEncoder, args.chromosome, args.position,
                                      args.ref, args.alt)
    /\ pc' = "done"
    /\ UNCHANGED <<positionEncoder, op, args, history>>
    /\ UNCHANGED <<identifierTypes, callers>>

\* encode_transcript_id / GbIdentifierService.encode
CallEncode ==
    /\ pc = "call" /\ op = "encode"
    /\ result' = svc_encode(args.transcript)
    /\ pc' = "done"
    /\ UNCHANGED <<positionEncoder, op, args, history>>
    /\ UNCHANGED <<identifierTypes, callers>>

\* decode_transcript_id / GbIdentifierService.to_string on a packed identifier
CallDecode ==
    /\ pc = "call" /\ op = "decode"
    /\ result' = svc_to_string(args.id_val)
    /\ pc' = "done"
    /\ UNCHANGED <<positionEncoder, op, args, history>>
    /\ UNCHANGED <<identifierTypes, callers>>

\* the caller hands the integer encode returned to decode_transcript_id
CallDecodeEncoded ==
    /\ pc = "done" /\ op = "encode" /\ result.kind = "ok"
    /\ op' = "decode_encoded"
    /\ args' = [transcript |-> args.transcript, id_val |-> result.value]
    /\ result' = svc_to_string(result.value)
    /\ pc' = "done"
    /\ UNCHANGED <<positionEncoder, history>>
    /\ UNCHANGED <<identifierTypes, callers>>

\* encode_vcf_position_gbid / PositionEncoder.encode
CallPositionEncode ==
    /\ pc = "call" /\ op = "position_encode"
    /\ result' = Returned(position_encode(positionEncoder, args.chromosome, args.position))
    /\ pc' = "done"
    /\ UNCHANGED <<positionEncoder, op, args, history>>
    /\ UNCHANGED <<identifierTypes, callers>>

\* the caller keeps the outcome and calls the position encoder a second time
AgainPositionEncode ==
    /\ pc = "done" /\ op = "position_encode" /\ history = {}
    /\ history' = {[op |-> op, args |-> args, result |-> result]}
    /\ args' \in LaterPositionArgs(args.chromosome)
    /\ pc' = "call"
    /\ result' = NoResult
    /\ UNCHANGED <<positionEncoder, op>>
    /\ UNCHANGED <<identifierTypes, callers>>

NextPosition ==
    \/ CallPositionEncode
    \/ AgainPositionEncode

\* the caller keeps the outcome and calls the same function again, on the same
\* encoder or on one built anew, with the same arguments or with one changed
AgainVariant ==
    /\ pc = "done" /\ op \in {"encodeSpdi", "encode1based"} /\ history = {}
    /\ history' = {[op |-> op, args |-> args, result |-> result]}
    /\ args' \in (IF op = "encodeSpdi" THEN LaterSpdiArgs(args) ELSE LaterVcfArgs(args))
    /\ positionEncoder' \in {positionEncoder, NewPositionEncoder}
    /\ pc' = "call"
    /\ result' = NoResult
    /\ UNCHANGED op
    /\ UNCHANGED <<identifierTypes, callers>>

NextRepeat ==
    \/ CallEncodeSpdi
    \/ CallEncode1based
    \/ AgainVariant

NextVariant ==
    \/ CallEncodeSpdi
    \/ CallEncode1based
    \/ CallEncode1basedIntRef

\* GbIdentifier(left) == GbIdentifier(right)
CallEq ==
    /\ pc = "call" /\ op = "eq"
    /\ result' = gbid_eq(PackedOf(args.left), PackedOf(args.right))
    /\ pc' = "done"
    /\ UNCHANGED <<positionEncoder, op, args, history>>
    /\ UNCHANGED <<identifierTypes, callers>>

\* GbIdentifier(left).equals_ignore_version(GbIdentifier(right))
CallEqualsIgnoreVersion ==
    /\ pc = "call" /\ op = "equals_ignore_version"
    /\ result' = gbid_equals_ignore_version(PackedOf(args.left), PackedOf(args.right))
    /\ pc' = "done"
    /\ UNCHANGED <<positionEncoder, op, args, history>>
    /\ UNCHANGED <<identifierTypes, callers>>

\* GbIdentifierService.equal_without_version(left, right)
CallEqualWithoutVersion ==
    /\ pc = "call" /\ op = "equal_without_version"
    /\ result' = svc_equal_without_version(PackedOf(args.left), PackedOf(args.right))
    /\ pc' = "done"
    /\ UNCHANGED <<positionEncoder, op, args, history>>
    /\ UNCHANGED <<identifierTypes, callers>>

NextEquality ==
    \/ CallEq
    \/ CallEqualsIgnoreVersion
    \/ CallEqualWithoutVersion

NextTranscript ==
    \/ CallEncode
    \/ CallDecode
    \/ CallDecodeEncoded

\* What a call hands the position encoder: the chromosome name (encodeSpdi
\* normalizes it first) and the position (encode1based strips the shared
\* leading bases first).
RECURSIVE StrippedPosition(_, _, _)
StrippedPosition(position, ref, altNorm) ==
    IF ref # <<>> /\ altNorm # <<>> /\ ref[1] = altNorm[1]
    THEN StrippedPosition(position + 1, DropFirst(ref, 1), DropFirst(altNorm, 1))
    ELSE position
LookupName(f) ==
    IF f.op = "position_encode" THEN Chr(f.args.chromosome)
    ELSE NormalizeChromosome(f.args.chromosome)
LookupPosition(f) ==
    IF f.op = "encode1based"
    THEN StrippedPosition(f.args.position - 1, f.args.ref, Upper(f.args.alt))
    ELSE f.args.position

\* The outcome of the call f on the tables as the caller read them.
OutcomeOn(f, view) ==
    CASE f.op = "position_encode" ->
            Returned(position_encode(view, f.args.chromosome, f.args.position))
      [] f.op = "encodeSpdi" ->
            encodeSpdi(view, f.args.chromosome, f.args.position, f.args.del_length, f.args.ins)
      [] f.op = "encode1based" ->
            encode1based(view, f.args.chromosome, f.args.position, f.args.ref, f.args.alt)
      [] f.op = "encode" -> svc_encode_on(view.types, f.args.transcript)
      [] f.op = "decode" -> gbid_str_on(view.types, f.args.id_val)
\* The caller has read what its call needs and goes on to compute the outcome.
HasRead(f, view) == [f EXCEPT !.view = view, !.at = "return"]

\* a caller's encode_1_based_without_throw reads self.chromosomes (.index); a
\* name the list lacks needs no other table
ReadChromosomes ==
    \E c \in DOMAIN callers : \E f \in {callers[c]} :
        \E view \in {[f.view EXCEPT !.chromosomes = positionEncoder.chromosomes]} :
            /\ f.at = "call" /\ f.op \in {"position_encode", "encodeSpdi", "encode1based"}
            /\ callers' = [callers EXCEPT ![c] =
                              IF IndexOf(view.chromosomes, LookupName(f)) = 0
                              THEN HasRead(f, view)
                              ELSE [f EXCEPT !.view = view, !.at = "sizes"]]
            /\ UNCHANGED <<positionEncoder, identifierTypes, op, args, pc, result, history>>

\* Mutant: reading the size also grows it to the position asked for.
ReadSizes_clamping ==
    \E c \in DOMAIN callers : \E f \in {callers[c]} :
        \E view \in {[f.view EXCEPT !.sizes = positionEncoder.sizes]} :
        \E chr_index \in {IndexOf(view.chromosomes, LookupName(f))} :
            /\ f.at = "sizes"
            /\ callers' = [callers EXCEPT ![c] =
                              IF LookupPosition(f) > view.sizes[chr_index] \/ LookupPosition(f) < 0
                              THEN HasRead(f, view)
                              ELSE [f EXCEPT !.view = view, !.at = "offsets"]]
            /\ positionEncoder' = [positionEncoder EXCEPT !.sizes[chr_index] =
                                      IF LookupPosition(f) > @ THEN LookupPosition(f) ELSE @]
            /\ UNCHANGED <<identifierTypes, op, args, pc, result, history>>
\* a caller reads self.sizes[chr_index]; a position outside [0, size] needs no
\* offset
ReadSizes ==
    \E c \in DOMAIN callers : \E f \in {callers[c]} :
        \E view \in {[f.view EXCEPT !.sizes = positionEncoder.sizes]} :
        \E chr_index \in {IndexOf(view.chromosomes, LookupName(f))} :
            /\ f.at = "sizes"
            /\ callers' = [callers EXCEPT ![c] =
                              IF LookupPosition(f) > view.sizes[chr_index] \/ LookupPosition(f) < 0
                              THEN HasRead(f, view)
                              ELSE [f EXCEPT !.view = view, !.at = "offsets"]]
            /\ UNCHANGED <<positionEncoder, identifierTypes, op, args, pc, result, history>>

\* a caller reads self.offsets[chr_index]
ReadOffsets ==
    \E c \in DOMAIN callers : \E f \in {callers[c]} :
        \E view \in {[f.view EXCEPT !.offsets = positionEncoder.offsets]} :
            /\ f.at = "offsets"
            /\ callers' = [callers EXCEPT ![c] = HasRead(f, view)]
            /\ UNCHANGED <<positionEncoder, identifierTypes, op, args, pc, result, history>>

\* a caller's transcript call iterates or indexes GbIdentifierType
ReadTypes ==
    \E c \in DOMAIN callers : \E f \in {callers[c]} :
        \E view \in {[f.view EXCEPT !.types = identifierTypes]} :
            /\ f.at = "call" /\ f.op \in {"encode", "decode"}
            /\ callers' = [callers EXCEPT ![c] = HasRead(f, view)]
            /\ UNCHANGED <<positionEncoder, identifierTypes, op, args, pc, result, history>>

\* a caller's call computes its outcome from what it read, and returns or raises
Return ==
    \E c \in DOMAIN callers : \E f \in {callers[c]} :
        /\ f.at = "return"
        /\ callers' = [callers EXCEPT ![c] =
                          TheOne({[f EXCEPT !.at = "done", !.result = r] :
                                    r \in {OutcomeOn(f, f.view)}})]
        /\ UNCHANGED <<positionEncoder, identifierTypes, op, args, pc, result, history>>

NextConcurrent ==
    \/ ReadChromosomes
    \/ ReadSizes
    \/ ReadOffsets
    \/ ReadTypes
    \/ Return

Next == NextVariant \/ NextConcurrent \/ NextTranscript \/ NextPosition \/ NextRepeat \/ NextEquality

Spec == Init /\ [][Next]_vars
SpecVariant == InitVariant /\ [][NextVariant]_vars
SpecConcurrent == InitConcurrent /\ [][NextConcurrent]_vars
SpecTranscript == InitTranscript /\ [][NextTranscript]_vars
SpecPosition == InitPosition /\ [][NextPosition]_vars
SpecRepeat == InitRepeat /\ [][NextRepeat]_vars
SpecEquality == InitEquality /\ [][NextEquality]_vars

\* ------------------------------------------------------------ variant claims

Done(name) == pc = "done" /\ op = name

HasOnlyBases(ins, bases) == \A i \in 1..Len(ins) : ins[i] \in bases
Supported(chromosome) == NormalizeChromosome(chromosome) \in CatalogueNames

\* Length of the longest common prefix of two strings, by its definition.
CommonPrefixLen(a, b) ==
    CHOOSE k \in 0..Len(a) :
        /\ k <= Len(b)
        /\ \A j \in 1..k : a[j] = b[j]
        /\ (k = Len(a) \/ k = Len(b) \/ a[k + 1] # b[k + 1])

\* The POSITION field of a packed variant, read through its mask.
PositionField(v) == Shr(BitAnd(v, MASK_POS), SHIFT_POS)
\* -2 as the 32-bit POSITION field holds it.
PackedWrongPosition == BitAnd(Big(-2), BitsLiteral(0, 31))
ChangeHashFlag(v) == v[SHIFT_C_HASH + 1]

\* C2: encode1based(chrom, pos, ref, alt) has the outcome of
\* encodeSpdi(chrom, pos - 1 + k, len(ref) - k, uppercase(alt)[k:]), k being the
\* length of the longest common prefix of ref and uppercase(alt).
C2_VcfSpdiEquivalence ==
    Done("encode1based") =>
        LET altU == Upper(args.alt)
            k == CommonPrefixLen(args.ref, altU)
        IN  result = encodeSpdi(positionEncoder, args.chromosome, args.position - 1 + k,
                                Len(args.ref) - k, DropFirst(altU, k))

\* C2 happens: a call whose alleles share a prefix of two bases and that returns.
C2_Witness ==
    /\ Done("encode1based")
    /\ CommonPrefixLen(args.ref, Upper(args.alt)) = 2
    /\ Len(args.alt) > 2
    /\ result.kind = "ok"

\* C3: a returning encodeSpdi call sets the CHANGE_HASH flag (bit 29) exactly
\* when len(ins) > 9 or del_length > 127 or ins contains N.
C3_EscapePathTrigger ==
    (Done("encodeSpdi") /\ result.kind = "ok") =>
        (ChangeHashFlag(result.value) = 1
            <=> (Len(args.ins) > 9 \/ args.del_length > 127 \/ Contains(args.ins, "N")))

\* C3 happens: an insertion of ten bases with a short deletion takes the escape path.
C3_Witness ==
    /\ Done("encodeSpdi")
    /\ result.kind = "ok"
    /\ Len(args.ins) = 10 /\ args.del_length <= 127 /\ ~Contains(args.ins, "N")
    /\ ChangeHashFlag(result.value) = 1

\* C5: encodeSpdi raises InvalidPositionException when the position encoder
\* returns -1 for the normalized chromosome or ins has a character outside
\* ACGTN, and returns an integer in every other case.
C5_RaisesExactly ==
    Done("encodeSpdi") =>
        LET positionId == encode_1_based_without_throw(
                              positionEncoder, NormalizeChromosome(args.chromosome), args.position)
            rejected == positionId = CHR_NOT_SUPPORTED
                        \/ ~HasOnlyBases(args.ins, {"A", "C", "G", "T", "N"})
        IN  /\ rejected => result.kind = "InvalidPositionException"
            /\ ~rejected => result.kind = "ok"

\* C5 happens: a call on the escape path (N in ins, long deletion) that returns,
\* and one that raises for its insertion alone.
C5_Witness ==
    /\ Done("encodeSpdi")
    /\ Supported(args.chromosome) /\ args.position = 1
    /\ Contains(args.ins, "N") /\ args.del_length = 128
    /\ result.kind = "ok"

C7_PositionZeroRejected ==
    (/\ Done("encodeSpdi")
     /\ Supported(args.chromosome)
     /\ args.position = 0
     /\ HasOnlyBases(args.ins, {"A", "C", "G", "T", "N"}))
    => result = Raised("InvalidPositionException", "Wrong position")

InRangeCall ==
    /\ Done("encodeSpdi")
    /\ Supported(args.chromosome)
    /\ 1 <= args.position /\ args.position <= SizeOf(NormalizeChromosome(args.chromosome))
    /\ args.del_length >= 0
    /\ HasOnlyBases(args.ins, VALID_BASES)
\* The one call whose four fields are all zero.
NothingAtTheStart ==
    /\ NormalizeChromosome(args.chromosome) = Chromosomes[1]
    /\ args.position = 1 /\ args.del_length = 0 /\ args.ins = <<>>

\* C17 as stated: every such call returns an integer > 0.
C17_StrictlyPositive ==
    InRangeCall => (result.kind = "ok" /\ BigPos(result.value))

\* C17, amended: every such call returns an integer >= 0, and 0 exactly when
\* it is on chromosome 1 at position 1 with d = 0 and ins empty.
C17_PositiveButAtTheStart ==
    InRangeCall => /\ result.kind = "ok"
                   /\ ~IsNeg(result.value)
                   /\ (result.value = BigZero) <=> NothingAtTheStart

\* C17 happens: nothing is deleted and nothing inserted at the first position
\* of chromosome 1, and 0 comes back.
C17_Witness ==
    /\ InRangeCall
    /\ NothingAtTheStart
    /\ result = Returned(BigZero)

\* C19: encode1based(c, p, n, alt) with an integer n >= 0 as ref has the outcome
\* of encodeSpdi(c, p - 1, n, uppercase(alt)), for every n and every alt.
C19_LengthUsedDirectly ==
    Done("encode1based_int_ref") =>
        result = encodeSpdi(positionEncoder, args.chromosome, args.position - 1,
                            args.ref, Upper(args.alt))

\* The call of the documented example.
ExampleCall ==
    /\ Done("encode1based")
    /\ args = [chromosome |-> <<"1">>, position |-> 16044378, ref |-> <<"C">>,
               alt |-> <<"C", "A", "C", "A", "C", "A", "C", "A", "C", "A", "T">>]

\* C20: encode_vcf_variant_gbid("1", 16044378, "C", "CACACACACAT") returns
\* 17227519582999023: it is what encodeSpdi returns for position 16044378, d = 0
\* and ins = "ACACACACAT"; its POSITION field is 16044377, its CHANGE_HASH flag
\* is set, its low 29 bits are 421204463, the low 29 bits of the hash of
\* "0:ACACACACAT" with seed 104729; and it is 16044377 * 2^30 + 2^29 + 421204463.
C20_ConcreteGbid ==
    ExampleCall =>
        /\ result.kind = "ok"
        /\ BigStr(result.value) = <<"1", "7", "2", "2", "7", "5", "1", "9", "5", "8", "2", "9", "9", "9", "0", "2", "3">>
        /\ result = encodeSpdi(positionEncoder, <<"1">>, 16044378, 0, <<"A", "C", "A", "C", "A", "C", "A", "C", "A", "T">>)
        /\ PositionField(result.value) = Big(16044377)
        /\ ChangeHashFlag(result.value) = 1
        /\ BitAnd(result.value, BitsLiteral(0, 28)) = Big(421204463)
        /\ BitAnd(hash_function(<<"0", ":", "A", "C", "A", "C", "A", "C", "A", "C", "A", "T">>, 104729), BitsLiteral(0, 28)) = Big(421204463)
        /\ result.value = Add(Add(Shl(Big(16044377), 30), Shl(Big(1), 29)), Big(421204463))

\* C20 happens: the example is encoded and an integer comes back.
C20_Witness ==
    /\ ExampleCall
    /\ result.kind = "ok"
    /\ ~IsNeg(result.value)

\* What the position encoder gives encodeSpdi for the arguments of the call.
PositionIdOfCall ==
    encode_1_based_without_throw(positionEncoder, NormalizeChromosome(args.chromosome),
                                 args.position)
\* A returned call that meets the conditions of the direct path.
DirectCall ==
    /\ Done("encodeSpdi") /\ result.kind = "ok"
    /\ Len(args.ins) <= 9 /\ 0 <= args.del_length /\ args.del_length <= 127
    /\ HasOnlyBases(args.ins, {"A", "C", "G", "T"})
\* The stated 2-bit code of a base, and the sum of code(ins[i]) * 4^i, the
\* first base counted as i = 0.
StatedCode(c) == CASE c = "A" -> 0 [] c = "C" -> 1 [] c = "G" -> 2 [] c = "T" -> 3
RECURSIVE BasesSum(_, _)
BasesSum(ins, i) ==
    IF i > Len(ins) THEN 0 ELSE StatedCode(ins[i]) * (4 ^ (i - 1)) + BasesSum(ins, i + 1)
\* The fields of the direct layout.
DirectFields == <<MASK_POS, MASK_INS_LEN, MASK_DEL, MASK_INS>>

\* C21: on the direct path the result is positionId * 2^30 + len(ins) * 2^25
\* + d * 2^18 + sum of code(ins[i]) * 4^i; the four fields are pairwise
\* disjoint, and positionId, len(ins), d and every base are read back from it.
C21_DirectPacking ==
    DirectCall =>
        /\ result.value = Add(Shl(PositionIdOfCall, 30),
                              Big(Len(args.ins) * (2 ^ 25) + args.del_length * (2 ^ 18)
                                  + BasesSum(args.ins, 1)))
        /\ \A i, j \in 1..4 : i # j => BitAnd(DirectFields[i], DirectFields[j]) = BigZero
        /\ Shr(result.value, 30) = PositionIdOfCall
        /\ Shr(BitAnd(result.value, MASK_INS_LEN), 25) = Big(Len(args.ins))
        /\ Shr(BitAnd(result.value, MASK_DEL), 18) = Big(args.del_length)
        /\ \A i \in 1..Len(args.ins) :
              result.value[2 * i - 1] + 2 * result.value[2 * i] = StatedCode(args.ins[i])

\* C21 happens: nine bases are inserted and 127 deleted at an in-range position.
C21_Witness ==
    /\ DirectCall
    /\ args.ins = <<"A", "C", "G", "T", "A", "C", "G", "T", "A">> /\ args.del_length = 127
    /\ ~IsNeg(PositionIdOfCall)
    /\ BitAnd(result.value, MASK_INS) = Big(BasesSum(args.ins, 1))

\* --------------------------------------------------------- transcript claims

IsDigits(s) == s # <<>> /\ \A i \in 1..Len(s) : s[i] \in DecDigits

\* a < b for two digit strings of one length
DigitsLess(a, b) ==
    \E k \in 1..Len(a) : /\ \A j \in 1..(k - 1) : a[j] = b[j]
                         /\ DigitVal(a[k]) < DigitVal(b[k])

\* A digit string without leading zero whose value is below that of `limit`.
PlainBelow(s, limit) ==
    /\ IsDigits(s) /\ s[1] # "0"
    /\ Len(s) < Len(limit) \/ (Len(s) = Len(limit) /\ DigitsLess(s, limit))

TwoTo37 == <<"1", "3", "7", "4", "3", "8", "9", "5", "3", "4", "7", "2">>
TwoTo18 == <<"2", "6", "2", "1", "4", "4">>

\* The id digits as decode prints them for a type: padded to exactly the width
\* decode uses, or longer than it with no leading zero and below 2^37.
CanonicalId(type_val, idstr) ==
    /\ IsDigits(idstr)
    /\ IF type_val.refseq
       THEN \/ Len(idstr) = 6
            \/ Len(idstr) = 9 /\ SubSeq(idstr, 1, 3) # <<"0", "0", "0">>
            \/ Len(idstr) > 9 /\ PlainBelow(idstr, TwoTo37)
       ELSE \/ Len(idstr) = type_val.padding_size
            \/ Len(idstr) > type_val.padding_size /\ PlainBelow(idstr, TwoTo37)

\* The version suffix as decode prints it: none, or "." and 1..2^18-1 in plain digits.
CanonicalVersion(suffix) ==
    \/ suffix = <<>>
    \/ /\ Len(suffix) > 1 /\ suffix[1] = "."
       /\ PlainBelow(Tail(suffix), TwoTo18)

\* An accession in the form decode prints.
Canonical(s) ==
    \E i \in 1..Len(GbIdentifierType) :
        LET type_val == GbIdentifierType[i]
            body == DropFirst(s, Len(type_val.prefix))
            dot == Find(body, ".")
            idstr == IF dot = 0 THEN body ELSE SubSeq(body, 1, dot - 1)
            suffix == IF dot = 0 THEN <<>> ELSE DropFirst(body, dot - 1)
        IN  /\ StartsWith(s, type_val.prefix)
            /\ CanonicalId(type_val, idstr)
            /\ CanonicalVersion(suffix)

PlainNumbers ==
    {Big(0), Big(1), Big(5), Big(7), Big(1234), Big(123456), Big(404276), Big(1000000),
     Big(1234567), Big(1234567890), Sub(Shl(Big(1), 37), Big(1))}
PlainVersions == {Big(0), Big(1), Big(6), Big(262143)}
MaxLeadingZeros == 5
Zeros(z) == [j \in 1..z |-> "0"]
Written(numbers) == {[value |-> n, digits |-> BigStr(n)] : n \in numbers}
PlainAccessions ==
    {[i |-> i, n |-> n.value, v |-> IF dotted THEN v.value ELSE BigZero,
      transcript |-> GbIdentifierType[i + 1].prefix \o Zeros(z) \o n.digits
                     \o (IF dotted THEN <<".">> \o v.digits ELSE <<>>)] :
        i \in 0..(Len(GbIdentifierType) - 1), n \in Written(PlainNumbers),
        z \in 0..MaxLeadingZeros, v \in Written(PlainVersions), dotted \in BOOLEAN}

\* C4: for the i-th prefix followed by n < 2^37 and optionally "." and v < 2^18,
\* encode returns i*2^55 + n*2^18 + v (v = 0 without "."), the fields TYPE, ID
\* and VERSION of the result read back as i, n and v, and the two documented
\* values come out.
C4_Packing ==
    Done("encode") =>
        /\ \A a \in PlainAccessions :
              args.transcript = a.transcript =>
                  /\ result = Returned(Add(Add(Shl(Big(a.i), 55), Shl(a.n, 18)), a.v))
                  /\ svc_type_id(result.value) = a.i
                  /\ svc_identifier(result.value) = a.n
                  /\ svc_version(result.value) = a.v
        /\ args.transcript = <<"E", "N", "S", "T", "0", "0", "0", "0", "0", "4", "0", "4", "2", "7", "6", ".", "6">> => BigStr(result.value) = <<"1", "0", "5", "9", "7", "8", "5", "2", "7", "7", "5", "0">>
        /\ args.transcript = <<"E", "N", "S", "T", "0", "0", "0", "0", "0", "1", "2", "3", "4", "5", "6">> => BigStr(result.value) = <<"3", "2", "3", "6", "3", "2", "4", "9", "6", "6", "4">>

\* C4 happens: the largest id and the largest version are packed under the last
\* prefix, and nothing spills from one field into the next.
C4_Witness ==
    /\ Done("encode")
    /\ args.transcript = <<"E", "N", "S", "R", "1", "3", "7", "4", "3", "8", "9", "5", "3", "4", "7", "1", ".", "2", "6", "2", "1", "4", "3">>
    /\ result.kind = "ok"
    /\ svc_type_id(result.value) = 11
    /\ svc_version(result.value) = Big(262143)

\* C9: encode returns or raises InvalidGbIdentifierException, and raises it
\* when no declared prefix starts the string; no other error escapes.
C9_OnlyInvalidIdentifier ==
    Done("encode") =>
        /\ result.kind \in {"ok", "InvalidGbIdentifierException"}
        /\ MatchingType(args.transcript) = 0 => result.kind = "InvalidGbIdentifierException"

\* The pad width C10 states for a type and an id.
StatedPadWidth(type_val, identifier) ==
    IF type_val = unassigned_transcript THEN 0
    ELSE IF type_val.refseq THEN (IF BigGE(identifier, Big(1000000)) THEN 9 ELSE 6)
    ELSE 11

\* C10: str(GbIdentifier(x)) is the prefix, the ID zero-padded to 11 (ENST, ENSP,
\* ENSG, ENSR), to 6 or 9 (NM, NR, NP, XM, XP, YP, XR) or not at all
\* (unassigned_transcript), and "." and the VERSION only when VERSION > 0.
C10_PaddingRule ==
    Done("decode") =>
        \A t \in 0..(Len(GbIdentifierType) - 1) : \A id \in DecodeIds : \A v \in DecodeVersions :
            args.id_val = Add(Add(Shl(Big(t), 55), Shl(id, 18)), Big(v)) =>
                result = ReturnedStr(
                    GbIdentifierType[t + 1].prefix
                    \o ZFill(BigStr(id), StatedPadWidth(GbIdentifierType[t + 1], id))
                    \o (IF v > 0 THEN <<".">> \o BigStr(Big(v)) ELSE <<>>))

\* ------------------------------------------------------ position encoder claims

\* The table's entries for a catalogue name.
OffsetOf(c) == positionEncoder.offsets[IndexOf(positionEncoder.chromosomes, c)]
TotalGenomeLength ==
    Add(positionEncoder.offsets[Len(positionEncoder.offsets)],
        Big(positionEncoder.sizes[Len(positionEncoder.sizes)]))
BigLess(a, b) == ~BigGE(a, b)
\* A supported chromosome and a position 1..length.
InRange(a) == a.chromosome \in CatalogueNames
              /\ 1 <= a.position /\ a.position <= SizeOf(a.chromosome)

\* C11: encode returns -1 only for a chromosome absent from the table, -2 only
\* for a position below 0 or above the length, and for a supported chromosome
\* and a position in [0, length] it returns offset + position - 1, which lies
\* in [0, total_genome_length).
C11_SentinelsApart ==
    Done("position_encode") =>
        LET supported == args.chromosome \in CatalogueNames
            outside == args.position < 0 \/ args.position > SizeOf(args.chromosome)
        IN  /\ result.value = Big(-1) => ~supported
            /\ result.value = Big(-2) => (supported /\ outside)
            /\ (supported /\ ~outside) =>
                  /\ result.value = Add(OffsetOf(args.chromosome), Big(args.position - 1))
                  /\ ~IsNeg(result.value)
                  /\ BigLess(result.value, TotalGenomeLength)

\* C12: over supported chromosomes and positions 1..length, encode is strictly
\* increasing in the position on one chromosome, and no two distinct
\* (chromosome, position) pairs get the same coordinate.
C12_InjectiveIncreasing ==
    Done("position_encode") =>
        \A h \in history :
            (InRange(h.args) /\ InRange(args)) =>
                /\ h.args # args => h.result.value # result.value
                /\ (h.args.chromosome = args.chromosome /\ h.args.position < args.position)
                      => BigLess(h.result.value, result.value)
                /\ (h.args.chromosome = args.chromosome /\ h.args.position > args.position)
                      => BigLess(result.value, h.result.value)

\* C12 happens: the last base of chromosome 1 and the first base of chromosome 2
\* are encoded one after the other, and get neighbouring coordinates.
C12_Witness ==
    /\ Done("position_encode")
    /\ args = [chromosome |-> <<"2">>, position |-> 1]
    /\ \E h \in history :
          /\ h.args = [chromosome |-> <<"1">>, position |-> SizeOf(<<"1">>)]
          /\ result.value = Add(h.result.value, Big(1))

\* C13: the chromosomes are 1..22, X, Y, M in that order, the first offset is
\* 0 and the whole genome is 3088286401 long; and the chromosome a call names
\* starts at or after the end of every chromosome declared before it, exactly
\* at the end of the one declared just before it.  Stated of the tables as
\* __init__ leaves them.
C13_ExclusivePrefixSums ==
    (pc = "call" /\ history = {}) =>
        LET names == positionEncoder.chromosomes
            off == positionEncoder.offsets
            sz == positionEncoder.sizes
            n == Len(names)
            j == IndexOf(names, args.chromosome)
        IN  /\ n = 25 /\ Len(off) = n /\ Len(sz) = n
            /\ \A i \in 1..22 : names[i] = NatStr(i)
            /\ names[23] = <<"X">> /\ names[24] = <<"Y">> /\ names[25] = <<"M">>
            /\ \A i \in 1..n : sz[i] = SizeOf(names[i]) /\ sz[i] > 0
            /\ off[1] = BigZero
            /\ BigStr(TotalGenomeLength) = <<"3", "0", "8", "8", "2", "8", "6", "4", "0", "1">>
            /\ \A i \in 1..(j - 1) : BigGE(off[j], Add(off[i], Big(sz[i])))
            /\ j > 1 => off[j] = Add(off[j - 1], Big(sz[j - 1]))

\* C13 happens: the first base of the last chromosome, M, is encoded and gets
\* the sum of the 24 lengths before it.
C13_Witness ==
    /\ Done("position_encode")
    /\ args = [chromosome |-> <<"M">>, position |-> 1]
    /\ BigStr(result.value) = <<"3", "0", "8", "8", "2", "6", "9", "8", "3", "2">>

\* ------------------------------------------------- claims about calls in a row

DirectInsertion(ins) == Len(ins) <= 9 /\ HasOnlyBases(ins, {"A", "C", "G", "T"})

\* C15: with chromosome, position and d <= 127 fixed, two distinct insertions of
\* at most 9 bases over A, C, G, T are encoded as two distinct integers.
C15_InsertionInjective ==
    Done("encodeSpdi") =>
        \A h \in history :
            (/\ h.op = "encodeSpdi"
             /\ h.args.chromosome = args.chromosome /\ h.args.position = args.position
             /\ h.args.del_length = args.del_length /\ args.del_length <= 127
             /\ DirectInsertion(h.args.ins) /\ DirectInsertion(args.ins)
             /\ h.args.ins # args.ins)
            => (/\ h.result.kind = "ok" /\ result.kind = "ok"
                /\ h.result.value # result.value)

\* C15 happens: "A" and then "AA" are inserted at one place; their base bits are
\* the same (all zero) and the results still differ.
C15_Witness ==
    /\ Done("encodeSpdi")
    /\ args.ins = <<"A", "A">>
    /\ \E h \in history :
          /\ h.args = [args EXCEPT !.ins = <<"A">>]
          /\ BitAnd(h.result.value, MASK_INS) = BitAnd(result.value, MASK_INS)
          /\ h.result.value # result.value

\* A position encodeSpdi takes without raising and without the -2 sentinel.
Accepted(a, r) == r.kind = "ok" /\ 0 <= a.position /\ a.position <= SizeOf(a.chromosome)

\* C16: with a supported chromosome, d and ins fixed, two distinct accepted
\* positions are encoded as two distinct integers, on either path.
C16_PositionSensitive ==
    Done("encodeSpdi") =>
        \A h \in history :
            (/\ h.op = "encodeSpdi"
             /\ h.args.chromosome = args.chromosome /\ args.chromosome \in CatalogueNames
             /\ h.args.del_length = args.del_length /\ h.args.ins = args.ins
             /\ h.args.position # args.position
             /\ Accepted(h.args, h.result) /\ Accepted(args, result))
            => h.result.value # result.value

\* C16 happens: a long deletion at positions 1 and 2 of chromosome 1, both on
\* the change-hash path with one change hash, gives two integers.
C16_Witness ==
    /\ Done("encodeSpdi")
    /\ args = [chromosome |-> <<"1">>, position |-> 2, del_length |-> 128, ins |-> <<"A">>]
    /\ \E h \in history :
          /\ h.args = [args EXCEPT !.position = 1]
          /\ ChangeHashFlag(h.result.value) = 1 /\ ChangeHashFlag(result.value) = 1
          /\ BitAnd(h.result.value, MASK_CHANGE_HASH_VALUE)
                = BitAnd(result.value, MASK_CHANGE_HASH_VALUE)
          /\ h.result.value # result.value

\* A returned encodeSpdi call with the arguments a that took the escape path.
EscapeCall(a, r) ==
    /\ r.kind = "ok"
    /\ (Len(a.ins) > 9 \/ a.del_length > 127 \/ Contains(a.ins, "N"))
\* The three stated parts of an escape-path result.
StatedPositionPart(a) ==
    Shl(BitAnd(encode_1_based_without_throw(NewPositionEncoder,
                                            NormalizeChromosome(a.chromosome), a.position),
               BitsLiteral(0, 31)), 30)
StatedFlagPart == Big(2 ^ 29)
StatedHashPart(a) ==
    BitAnd(hash_function(IntStr(a.del_length) \o <<":">> \o a.ins, HASH_SEED),
           BitsLiteral(0, 28))

\* C22: on the escape path the result is the masked positionId at bit 30, plus
\* the CHANGE_HASH flag, plus the 64-bit hash of "{d}:{ins}" reduced to 29
\* bits; two such calls with one (d, ins) agree in the low 29 bits, and two
\* with one (chromosome, position) agree in the bits from 30 upward.
C22_ChangeHashPacking ==
    (Done("encodeSpdi") /\ EscapeCall(args, result)) =>
        /\ result.value = Add(Add(StatedPositionPart(args), StatedFlagPart),
                              StatedHashPart(args))
        /\ \A h \in history :
              (h.op = "encodeSpdi" /\ EscapeCall(h.args, h.result)) =>
                /\ (h.args.del_length = args.del_length /\ h.args.ins = args.ins)
                      => BitAnd(h.result.value, BitsLiteral(0, 28))
                            = BitAnd(result.value, BitsLiteral(0, 28))
                /\ (/\ NormalizeChromosome(h.args.chromosome)
                          = NormalizeChromosome(args.chromosome)
                    /\ h.args.position = args.position)
                      => Shr(h.result.value, 30) = Shr(result.value, 30)

\* C22 happens: one 10-base insertion on chromosomes 1 and X keeps its low 29
\* bits, and a second change at one place keeps the bits from 30 upward.
C22_Witness ==
    /\ Done("encodeSpdi") /\ EscapeCall(args, result)
    /\ StatedHashPart(args) # BigZero
    /\ \E h \in history :
          /\ EscapeCall(h.args, h.result)
          /\ h.result.value # result.value
          /\ \/ /\ Len(args.ins) = 10 /\ h.args.ins = args.ins
                /\ h.args.del_length = args.del_length
                /\ h.args.chromosome # args.chromosome
                /\ BitAnd(h.result.value, BitsLiteral(0, 28))
                      = BitAnd(result.value, BitsLiteral(0, 28))
             \/ /\ h.args.chromosome = args.chromosome /\ h.args.position = args.position
                /\ h.args.ins # args.ins
                /\ Shr(h.result.value, 30) = Shr(result.value, 30)

\* A returned call with the arguments a that took the direct path, its
\* position not the -2 sentinel.
DirectNoSentinel(a, r) ==
    /\ r.kind = "ok"
    /\ Len(a.ins) <= 9 /\ a.del_length <= 127 /\ ~Contains(a.ins, "N")
    /\ encode_1_based_without_throw(NewPositionEncoder, NormalizeChromosome(a.chromosome),
                                    a.position) # ERROR_WRONG_CHR_POSITION

\* C27: two encodeSpdi calls that return on the direct path without the -2
\* sentinel and differ in the normalized chromosome, the position, d or ins
\* return different integers.
C27_DirectPathInjective ==
    Done("encodeSpdi") =>
        \A h \in history :
            (/\ h.op = "encodeSpdi"
             /\ DirectNoSentinel(h.args, h.result) /\ DirectNoSentinel(args, result)
             /\ \/ NormalizeChromosome(h.args.chromosome) # NormalizeChromosome(args.chromosome)
                \/ h.args.position # args.position
                \/ h.args.del_length # args.del_length
                \/ h.args.ins # args.ins)
            => h.result.value # result.value

\* ------------------------------------------------ identifier equality claims

\* An identifier of the data model: TYPE one of the 12 types, top bit clear.
InDataModel(f) == f.type_id < Len(GbIdentifierType) /\ f.omit = 0
True == Returned(Big(1))
False == Returned(BigZero)
\* Two integers that differ at most in the VERSION bits.
DifferInVersionOnly(a, b) ==
    \A i \in 1..BitWidth : a[i] # b[i] => MASK_VERSION[i] = 1

ReturnedVariant ==
    /\ pc = "done" /\ op \in {"encodeSpdi", "encode1based"}
    /\ result.kind = "ok"
\* The width of a field, from its mask, and the width of the whole layout.
FieldWidth(mask) == BitLength(Shr(mask, BitLength(BitAnd(mask, Neg(mask))) - 1))
LayoutWidth ==
    BitLength(BitOr(MASK_HASH, BitOr(MASK_NULL, BitOr(MASK_POS, BitOr(MASK_C_HASH,
        BitOr(MASK_INS_LEN, BitOr(MASK_DEL, BitOr(MASK_INS, MASK_CHANGE_HASH_VALUE))))))))
\* v is held by a signed 64-bit word: bit 63 is its sign.
FitsInt64(v) == \A i \in 65..BitWidth : v[i] = v[64]

\* C23 as stated: the POSITION field is 36 bits wide and the packed value does
\* not fit a 64-bit word.
C23_Position36Bits ==
    ReturnedVariant =>
        /\ FieldWidth(MASK_POS) = 36
        /\ LayoutWidth > 64
        /\ ~FitsInt64(result.value)

\* C23, amended: the POSITION field is 32 bits wide (bits 30..61), the layout
\* is 64 bits wide, every returned value v has -2^31 <= v < 2^62 and so is held
\* by one 64-bit word, and a non-negative returned value carries the whole
\* positionId in the field.
C23_Position32Bits ==
    ReturnedVariant =>
        /\ FieldWidth(MASK_POS) = 32 /\ MASK_POS = BitsLiteral(30, 61)
        /\ LayoutWidth = 64
        /\ BigGE(result.value, Neg(Shl(Big(1), 31)))
        /\ BigLess(result.value, Shl(Big(1), 62))
        /\ FitsInt64(result.value)
        /\ (op = "encodeSpdi" /\ ~IsNeg(PositionIdOfCall))
              => Shr(BitAnd(result.value, MASK_POS), 30) = PositionIdOfCall

\* C23 happens: the last base of the last chromosome has a positionId above
\* 2^31, which fills the 32-bit field to its top bit, bit 61 of the result.
C23_Witness ==
    /\ ReturnedVariant /\ op = "encodeSpdi"
    /\ args.position = SizeOf(NormalizeChromosome(args.chromosome))
    /\ BigGE(PositionIdOfCall, Shl(Big(1), 31))
    /\ BitLength(result.value) = 62

\* C24: every returned result of encodeSpdi or encode1based, the results of
\* the -2 sentinel included, has the FULL_HASH bit (bit 63) and the MASK_NULL
\* bit (bit 62) clear: 0 <= result < 2^62.
C24_ReservedBitsClear ==
    ReturnedVariant =>
        /\ BitAnd(result.value, MASK_HASH) = BigZero
        /\ BitAnd(result.value, MASK_NULL) = BigZero
        /\ ~IsNeg(result.value)
        /\ BigLess(result.value, Shl(Big(1), 62))

\* ------------------------------------------------ claims about concurrent calls

\* The outcome of the call f when it runs alone, on the tables as built.
AloneOutcome(f) ==
    CASE f.op = "position_encode" ->
            Returned(position_encode(NewPositionEncoder, f.args.chromosome, f.args.position))
      [] f.op = "encodeSpdi" ->
            encodeSpdi(NewPositionEncoder, f.args.chromosome, f.args.position,
                       f.args.del_length, f.args.ins)
      [] f.op = "encode1based" ->
            encode1based(NewPositionEncoder, f.args.chromosome, f.args.position,
                         f.args.ref, f.args.alt)
      [] f.op = "encode" -> svc_encode(f.args.transcript)
      [] f.op = "decode" -> svc_to_string(f.args.id_val)

\* C25: under every interleaving of concurrent calls the chromosome list, the
\* sizes, the offsets and the identifier types stay as they were built, and
\* every call that has ended has the outcome it has when it runs alone.
C25_TablesNeverMutated ==
    /\ positionEncoder = NewPositionEncoder
    /\ identifierTypes = GbIdentifierType
    /\ \A c \in DOMAIN callers :
          callers[c].at = "done" => callers[c].result = AloneOutcome(callers[c])

\* C25 happens: a variant call has returned its integer while another call,
\* which read the chromosome list and the sizes before or meanwhile, has still
\* to read the offsets.
C25_Witness ==
    \E c, d \in DOMAIN callers :
        /\ callers[c].at = "done" /\ callers[c].op = "encodeSpdi"
        /\ callers[c].result.kind = "ok" /\ callers[c].view.offsets = Offsets
        /\ callers[d].at = "offsets" /\ callers[d].op = "encode1based"
        /\ callers[d].view.sizes = Sizes

\* ------------------------------------------------ claims about prefix matching

\* The declared types whose prefix the string starts with.
MatchingTypes(transcript) ==
    {i \in 1..Len(GbIdentifierType) : StartsWith(transcript, GbIdentifierType[i].prefix)}
\* Other orders to match in: the declared order rotated, and reversed.
Rotated(k) ==
    [i \in 1..Len(GbIdentifierType) |->
        GbIdentifierType[((i + k - 1) % Len(GbIdentifierType)) + 1]]
Reversed == [i \in 1..Len(GbIdentifierType) |-> GbIdentifierType[Len(GbIdentifierType) + 1 - i]]
MatchingOrders == {Rotated(k) : k \in 0..(Len(GbIdentifierType) - 1)} \cup {Reversed}

\* C26: no declared prefix is a prefix of another, at most one of the 12
\* prefixes matches the string encode is called with, the TYPE of a returned
\* identifier is the 0-based index of that prefix, and the first match is the
\* same type under every matching order.
C26_PrefixMatchingUnambiguous ==
    Done("encode") =>
        /\ \A i, j \in 1..Len(GbIdentifierType) :
              i # j => ~StartsWith(GbIdentifierType[i].prefix, GbIdentifierType[j].prefix)
        /\ Cardinality(MatchingTypes(args.transcript)) <= 1
        /\ (MatchingTypes(args.transcript) = {}) = (result.msg = "Wrong type")
        /\ result.kind = "ok" => MatchingTypes(args.transcript) = {svc_type_id(result.value) + 1}
        /\ \A order \in MatchingOrders : \A i \in MatchingTypes(args.transcript) :
              /\ MatchingTypeOn(order, args.transcript) # 0
              /\ order[MatchingTypeOn(order, args.transcript)] = GbIdentifierType[i]

\* C26 happens: an ENSR accession, the last declared type, is matched as TYPE 11
\* and is the first match when the order is reversed.
C26_Witness ==
    /\ Done("encode") /\ result.kind = "ok"
    /\ StartsWith(args.transcript, <<"E", "N", "S", "R">>)
    /\ svc_type_id(result.value) = 11
    /\ MatchingTypeOn(Reversed, args.transcript) = 1

\* ------------------------------------------------------ claims about VCF input

\* A single-base substitution: two distinct bases among A, C, G, T.
IsSnv(ref, alt) ==
    /\ Len(ref) = 1 /\ Len(alt) = 1 /\ ref # alt
    /\ HasOnlyBases(ref, {"A", "C", "G", "T"}) /\ HasOnlyBases(alt, {"A", "C", "G", "T"})

\* C28: for a supported chromosome c, a position p of 1..length(c) and a
\* single-base substitution, encode1based returns an integer whose POSITION
\* field is offset(c) + p - 2 and not the -2 sentinel.
C28_EverySnvEncodable ==
    (/\ Done("encode1based")
     /\ Supported(args.chromosome)
     /\ 1 <= args.position
     /\ args.position <= SizeOf(NormalizeChromosome(args.chromosome))
     /\ IsSnv(args.ref, args.alt))
    => /\ result.kind = "ok"
       /\ PositionField(result.value)
            = Add(OffsetOf(NormalizeChromosome(args.chromosome)), Big(args.position - 2))
       /\ PositionField(result.value) # PackedWrongPosition

\* C29: a shared anchor base b of A, C, G, T put before ref and alt, with the
\* position moved back by one, leaves the outcome of encode1based as it is:
\* encode1based(c, p, b + ref, b + alt) = encode1based(c, p + 1, ref, alt).
C29_LeftPaddingInvariant ==
    Done("encode1based") =>
        \A b \in {"A", "C", "G", "T"} :
            encode1based(positionEncoder, args.chromosome, args.position - 1,
                         <<b>> \o args.ref, <<b>> \o args.alt) = result

\* C29 happens: a substitution with a lower-case alt is encoded, and so is the
\* same substitution behind the anchor A one position earlier, as one integer.
C29_Witness ==
    /\ Done("encode1based") /\ result.kind = "ok"
    /\ args.ref = <<"C">> /\ args.alt = <<"a">>
    /\ encode1based(positionEncoder, args.chromosome, args.position - 1,
                    <<"A", "C">>, <<"A", "a">>) = result
    /\ encodeSpdi(positionEncoder, args.chromosome, args.position - 1, 1, <<"A">>) = result

\* C30 as stated: encode1based has the outcome it has on the upper-cased ref
\* and the upper-cased alt.
C30_CaseInsensitiveInBoth ==
    Done("encode1based") =>
        encode1based(positionEncoder, args.chromosome, args.position,
                     Upper(args.ref), Upper(args.alt)) = result

\* C30, amended: encode1based has the outcome it has on the upper-cased alt, and
\* the outcome it has on the upper-cased ref too when ref is upper-case along
\* the leading bases it shares with the upper-cased alt.
C30_CaseInsensitiveInAlt ==
    Done("encode1based") =>
        /\ encode1based(positionEncoder, args.chromosome, args.position,
                        args.ref, Upper(args.alt)) = result
        /\ (CommonPrefixLen(args.ref, Upper(args.alt))
               = CommonPrefixLen(Upper(args.ref), Upper(args.alt)))
             => encode1based(positionEncoder, args.chromosome, args.position,
                             Upper(args.ref), Upper(args.alt)) = result

\* C30 happens: a lower-case ref base that alt does not start with, and an alt
\* with a lower-case base, are encoded as their upper-case forms are.
C30_Witness ==
    /\ Done("encode1based") /\ result.kind = "ok"
    /\ args.ref = <<"a">> /\ args.alt = <<"C", "a">>
    /\ encode1based(positionEncoder, args.chromosome, args.position,
                    <<"A">>, <<"C", "A">>) = result

====
